---- MODULE Spec2Model ----
(***************************************************************************)
(* Namespace-to-file-path resolution of the Symfony UX Twig Component      *)
(* extension: parseComponentNamespace and findComponentFiles               *)
(* (src/utils/componentFinder.ts) and generatePossiblePaths (the           *)
(* refactored componentFinder in unnamed/part_002).                        *)
(* Further sections model findMatchingBasePath (unnamed/part_002), the     *)
(* tag formatter (unnamed/part_007), the activation and configuration      *)
(* listener (src/extension.ts) and the component cache (unnamed/part_003). *)
(*                                                                         *)
(* A JavaScript string is a sequence of characters; a character is a       *)
(* one-character TLA+ string.  Four substrings that no operation of the    *)
(* modelled code ever splits are kept as single tokens: the placeholders   *)
(* "${namespace}" and "${componentName}" and the file suffixes ".php",     *)
(* ".html.twig" and ".ext".  A nullable string is a sequence of zero       *)
(* (null) or one strings.                                                  *)
(***************************************************************************)
EXTENDS Integers, Naturals, Sequences, FiniteSets, TLC

VARIABLES
    excludedDirectoryNames,  \* getConfiguredPaths().excludedDirectoryNames now
    pathOptions,     \* the other five lists getConfiguredPaths() returns now
    fullNamespace,   \* parseComponentNamespace: argument
    basePaths,       \* parseComponentNamespace: argument
    parseResult,     \* parseComponentNamespace: returned record (null before)
    parsePc,         \* "idle" | "done"
    expandArgs,      \* generatePossiblePaths: its four arguments
    expandResult,    \* generatePossiblePaths: returned list (null before)
    expandPc,        \* "idle" | "done"
    workspaceFolders,  \* vscode.workspace.workspaceFolders: null or the roots
    files,           \* the files on disk, as absolute paths
    tag,             \* findComponentFiles: the tag on the line and the cursor gate
    matchResults,    \* findComponentFiles: phpResult and twigResult
    phpPossiblePaths,  \* findComponentFiles: the logic-file candidates
    twigPossiblePaths, \* findComponentFiles: the template-file candidates
    primaryPhpFiles,   \* foundPhpFiles when line 331 is reached
    primaryTwigFiles,  \* foundTwigFiles when line 331 is reached
    fallbackProbes,    \* the existsSync calls of the aggressive search, in order
    foundPhpFiles,     \* foundPhpFiles when line 387 is reached
    foundTwigFiles,    \* foundTwigFiles when line 387 is reached
    findReturn,        \* the returned value: null for undefined
    findPc,            \* "idle" | "done"
    configReads,       \* findComponentFiles: its getConfiguredPaths() calls, in order
    primaryProbes,     \* the existsSync calls of lines 313 and 324, in order
    probeErrors,       \* the paths whose existence check fails during this call
    settings,          \* the user's settings.json entries the extension reads
    configuredPaths,   \* getConfiguredPaths: returned record (null before)
    configPc,          \* "idle" | "done"
    gateLine,          \* the cursor gate: text of the line under the cursor
    gateCursor,        \* the cursor gate: position.character
    gateResult,        \* the cursor gate: null, or the namespace and name it passes on
    gatePc,            \* "idle" | "done"
    navRequest,        \* the navigation under way: how it was triggered, what was found
    quickPick,         \* the quick pick on screen: null or its item labels
    quickPickShown,    \* a quick pick was shown for this navigation
    accepted,          \* the user accepted a quick pick item for this navigation
    opened,            \* the files opened for this navigation, in order
    timer,             \* the setTimeout of provideDefinition is pending
    definition,        \* the location provideDefinition returned to the editor
    activeIsSource,    \* the active editor still shows the document of the tag
    fullComponentPath, \* findMatchingBasePath: the component reference
    candidateBasePaths, \* findMatchingBasePath: the base paths it is given
    baseMatch,         \* findMatchingBasePath: returned record (null before)
    basePc,            \* "idle" | "done"
    document,          \* the formatter: the lines of the Twig document
    formatConfig,      \* the formatter: what getFormattingConfig() returns now
    formatRange,       \* formatTwigComponents: first and last line of its range
    edits,             \* formatTwigComponents: the returned edits (null before)
    formatPc,          \* "idle" | "done"
    extSettings,       \* the settings of the extension's configuration section
    registry,          \* everything registered with VS Code so far, and whether it is live
    disposables,       \* activate: its disposables array, as indices into registry
    subscriptions,     \* context.subscriptions, as indices into registry
    extState,          \* "inactive" | "active" | "deactivated"
    configChanges,     \* configuration changes of the section since activation
    twigOnDisk,         \* the component cache: the directories that hold a .twig file now
    componentDirs,     \* the component cache: the base directories that exist now
    cache,             \* ComponentCache.cache: cache key to component inventory
    fileWatchers,      \* ComponentCache.fileWatchers: the live watchers
    isScanning,        \* ComponentCache.isScanning
    scanQueue,         \* ComponentCache.scanQueue: keys in insertion order
    pending,           \* the async calls of the cache suspended at an await
    debounced,         \* the debounced file-change handlers whose timer is running
    returned,          \* the latest value getComponents returned (null before)
    unscanned,         \* the arguments queued for a scan and not scanned since
    calls,             \* getComponents calls so far
    fileEvents         \* file-system events so far

matchVars == <<fullNamespace, basePaths, parseResult, parsePc>>
configVars == <<excludedDirectoryNames, pathOptions>>
expandVars == <<expandArgs, expandResult, expandPc>>
diskVars == <<workspaceFolders, files>>
callVars == <<tag, matchResults, phpPossiblePaths, twigPossiblePaths, primaryPhpFiles,
              primaryTwigFiles, fallbackProbes, foundPhpFiles, foundTwigFiles,
              findReturn, findPc, configReads, primaryProbes, probeErrors>>
findVars == <<diskVars, callVars>>
settingsVars == <<settings, configuredPaths, configPc>>
gateVars == <<gateLine, gateCursor, gateResult, gatePc>>
navVars == <<navRequest, quickPick, quickPickShown, accepted, opened, timer, definition,
            activeIsSource>>
baseVars == <<fullComponentPath, candidateBasePaths, baseMatch, basePc>>
formatVars == <<document, formatConfig, formatRange, edits, formatPc>>
extVars == <<extSettings, registry, disposables, subscriptions, extState, configChanges>>
cacheVars == <<twigOnDisk, componentDirs, cache, fileWatchers, isScanning, scanQueue, pending, debounced, returned, unscanned, calls, fileEvents>>
vars == <<configVars, matchVars, expandVars, findVars, settingsVars, gateVars, navVars,
          baseVars,
          formatVars,
          extVars,
          cacheVars>>

----------------------------------------------------------------------------
(* Bounds *)

MaxBasePaths == 2      \* longest base-path list handed to the matcher
MaxTemplates == 2      \* longest template list handed to generatePossiblePaths
MaxFiles == 2          \* most files on disk at a time
MaxSettings == 2       \* most option entries the user has set at a time
MaxLines == 2          \* most lines of a document handed to the formatter
MaxChanges == 3        \* most configuration changes between activation and deactivation
MaxCalls == 2          \* most getComponents calls of a behaviour
MaxFileEvents == 2     \* most file-system events of a behaviour

----------------------------------------------------------------------------
(* JavaScript string primitives *)

Empty == <<>>
Null == <<>>
Some(s) == <<s>>

Upper == <<"A","B","C","D","E","F","G","H","I","J","K","L","M",
           "N","O","P","Q","R","S","T","U","V","W","X","Y","Z">>
Lower == <<"a","b","c","d","e","f","g","h","i","j","k","l","m",
           "n","o","p","q","r","s","t","u","v","w","x","y","z">>

LowerOf ==
    [ c \in { Upper[i] : i \in 1..Len(Upper) } |->
        Lower[CHOOSE i \in 1..Len(Upper) : Upper[i] = c] ]

LowerChar(c) == IF c \in DOMAIN LowerOf THEN LowerOf[c] ELSE c

\* String.prototype.toLowerCase
toLowerCase(s) == [i \in 1..Len(s) |-> LowerChar(s[i])]

\* Array.prototype.includes
ArrIncludes(list, x) == \E i \in 1..Len(list) : list[i] = x

\* String.prototype.startsWith
startsWith(s, p) == Len(p) <= Len(s) /\ SubSeq(s, 1, Len(p)) = p

\* String.prototype.indexOf, 1-based; 0 when absent
RECURSIVE indexFrom(_, _, _)
indexFrom(s, sub, i) ==
    IF i + Len(sub) - 1 > Len(s) THEN 0
    ELSE IF \A k \in 1..Len(sub) : s[i + k - 1] = sub[k] THEN i
    ELSE indexFrom(s, sub, i + 1)

indexOf(s, sub) == indexFrom(s, sub, 1)

\* String.prototype.includes
includes(s, sub) == indexOf(s, sub) > 0

\* String.prototype.substring(from) with a 0-based index
substring(s, from) == SubSeq(s, from + 1, Len(s))

\* String.prototype.replace(pattern, replacement) with a string pattern:
\* only the first occurrence is replaced
replaceFirst(s, pat, rep) ==
    LET i == indexOf(s, pat)
    IN IF i = 0 THEN s
       ELSE SubSeq(s, 1, i - 1) \o rep \o SubSeq(s, i + Len(pat), Len(s))

\* String.prototype.replace(/c/g, d) for one character c
replaceAllChar(s, c, d) == [i \in 1..Len(s) |-> IF s[i] = c THEN d ELSE s[i]]

\* String.prototype.split(sep) for a one-character separator
RECURSIVE split(_, _)
split(s, sep) ==
    LET i == indexOf(s, <<sep>>)
    IN IF i = 0 THEN <<s>>
       ELSE <<SubSeq(s, 1, i - 1)>> \o split(SubSeq(s, i + 1, Len(s)), sep)

\* Array.prototype.join(sep) for a one-character separator
RECURSIVE join(_, _)
join(parts, sep) ==
    IF Len(parts) = 0 THEN Empty
    ELSE IF Len(parts) = 1 THEN parts[1]
    ELSE parts[1] \o <<sep>> \o join(Tail(parts), sep)

\* String.prototype.replace(/\/+/g, '/')
RECURSIVE CollapseSlashes(_)
CollapseSlashes(s) ==
    IF Len(s) < 2 THEN s
    ELSE IF s[1] = "/" /\ s[2] = "/" THEN CollapseSlashes(Tail(s))
    ELSE <<s[1]>> \o CollapseSlashes(Tail(s))

\* String.prototype.replace(/^\//, '')
StripLeadingSlash(s) == IF Len(s) > 0 /\ s[1] = "/" THEN Tail(s) ELSE s

\* path.normalize (posix) for paths without ".." segments: repeated slashes
\* collapse, "." segments vanish, a trailing slash stays, "" becomes "."
normalize(p) ==
    LET isAbsolute == Len(p) > 0 /\ p[1] = "/"
        trailing == Len(p) > 0 /\ p[Len(p)] = "/"
        segs == SelectSeq(split(p, "/"), LAMBDA x : x # Empty /\ x # <<".">>)
        body == join(segs, "/")
    IN IF body = Empty THEN (IF isAbsolute THEN <<"/">> ELSE <<".">>)
       ELSE (IF isAbsolute THEN <<"/">> ELSE Empty) \o body
                \o (IF trailing THEN <<"/">> ELSE Empty)

\* path.join (posix): the non-empty arguments joined by "/", then normalized
pathJoin(args) ==
    normalize(join(SelectSeq(args, LAMBDA x : x # Empty), "/"))

\* mutant: the base path is returned as configured, trailing slashes kept
StripTrailingSlashes_Kept(s) == s

\* basePath.replace(/\/+$/, '')
RECURSIVE StripTrailingSlashes(_)
StripTrailingSlashes(s) ==
    IF Len(s) > 0 /\ s[Len(s)] = "/"
    THEN StripTrailingSlashes(SubSeq(s, 1, Len(s) - 1))
    ELSE s

----------------------------------------------------------------------------
(* String literals *)

sSrc == <<"s","r","c">>
sTemplates == <<"t","e","m","p","l","a","t","e","s">>
sComponents == <<"c","o","m","p","o","n","e","n","t","s">>
sApp == <<"A","p","p">>
sAppLower == <<"a","p","p">>
sApps == <<"A","p","p","s">>
sAp == <<"A","p">>
sMenu == <<"M","e","n","u">>
sCards == <<"C","a","r","d","s">>
sStat == <<"S","t","a","t">>
sWidget == <<"W","i","d","g","e","t">>
sNamespaceVar == <<"${namespace}">>
sComponentNameVar == <<"${componentName}">>
sHtmlTwig == <<".html.twig">>
sItem == <<"I","t","e","m">>

Path(parts) == join(parts, "/")
Ns(parts) == join(parts, ":")

\* getConfiguredPaths, src/utils/config.ts:80-108: the built-in defaults
DefaultPhpBasePaths == <<sSrc>>
DefaultPhpComponentPaths ==
    << <<"T","w","i","g","/","C","o","m","p","o","n","e","n","t","/","${namespace}","/","${componentName}",".php">>,
       <<"C","o","m","p","o","n","e","n","t","s","/","${namespace}","/","${componentName}",".php">>,
       <<"T","w","i","g","/","C","o","m","p","o","n","e","n","t","s","/","${namespace}","/","${componentName}",".php">> >>
DefaultTwigBasePaths == <<sTemplates>>
DefaultTwigTemplatePaths ==
    << <<"c","o","m","p","o","n","e","n","t","s","/","${namespace}","/","${componentName}",".html.twig">>,
       <<"t","w","i","g","/","c","o","m","p","o","n","e","n","t","s","/","${namespace}","/","${componentName}",".html.twig">>,
       <<"${namespace}","/","${componentName}",".html.twig">> >>
DefaultExcludedDirectoryNames == <<sSrc, sTemplates, sComponents>>
DefaultFallbackTemplateDirs == <<sTemplates>>

DefaultPathOptions ==
    [ phpBasePaths |-> DefaultPhpBasePaths,
      phpComponentPaths |-> DefaultPhpComponentPaths,
      twigBasePaths |-> DefaultTwigBasePaths,
      twigTemplatePaths |-> DefaultTwigTemplatePaths,
      fallbackTemplateDirs |-> DefaultFallbackTemplateDirs ]

\* the value of a variable that the operations of a specification never read
NotRead == <<>>

----------------------------------------------------------------------------
(* getConfiguredPaths, src/utils/config.ts:159-336 *)

\* the values a settings.json entry can hold, as JavaScript sees them
Undefined == [kind |-> "undefined"]
Arr(items) == [kind |-> "array", items |-> items]
Str(chars) == [kind |-> "string", chars |-> chars]
Num == [kind |-> "number"]
Obj(props) == [kind |-> "object", props |-> props]

Options ==
    { "phpBasePaths", "phpComponentPaths", "twigBasePaths", "twigTemplatePaths",
      "excludedDirectoryNames", "fallbackTemplateDirs" }

\* the lists the function falls back to: lines 203, 227-231, 255, 279-283, 307, 331
BuiltInDefault(key) ==
    CASE key = "phpBasePaths" -> DefaultPhpBasePaths
      [] key = "phpComponentPaths" -> DefaultPhpComponentPaths
      [] key = "twigBasePaths" -> DefaultTwigBasePaths
      [] key = "twigTemplatePaths" -> DefaultTwigTemplatePaths
      [] key = "excludedDirectoryNames" -> DefaultExcludedDirectoryNames
      [] key = "fallbackTemplateDirs" -> DefaultFallbackTemplateDirs

\* package.json "contributes.configuration": the defaults the editor registers for
\* the keys of section 'symfony-ux-twig-component'
PackageDefault(key) ==
    CASE key = "componentPaths" ->
            Arr(<< <<"s","r","c","/","C","o","m","p","o","n","e","n","t","s">>,
                   <<"t","e","m","p","l","a","t","e","s","/","c","o","m","p","o","n","e","n","t","s">> >>)
      [] key = "excludedDirectoryNames" -> Arr(<<sSrc, sTemplates, sComponents>>)
      [] key = "fallbackTemplateDirs" -> Arr(<<sTemplates>>)
      [] OTHER -> Undefined

\* WorkspaceConfiguration.get(key, defaultValue): the user's value, else the
\* registered default, else the default value of the call
ConfigGet(userValue, registered, defaultValue) ==
    IF userValue.kind # "undefined" THEN userValue
    ELSE IF registered.kind # "undefined" THEN registered
    ELSE defaultValue

\* newConfig.get(key, []), line 168
NewConfigGet(s, key) == ConfigGet(s.flat[key], PackageDefault(key), Arr(<<>>))

\* oldConfig.get(key, []), line 169: no key of 'symfonyUxTwigComponent' is registered
OldConfigGet(s, key) == ConfigGet(s.legacy[key], Undefined, Arr(<<>>))

\* line 175
ComponentPathsConfig(s) ==
    ConfigGet(s.componentPaths, PackageDefault("componentPaths"), Arr(<<>>))

\* lines 179-181
IsComponentPathsObject(v) == v.kind = "object"

\* Array.isArray(v)
IsArray(v) == v.kind = "array"

\* v.length > 0: false for a value without a length
HasPositiveLength(v) ==
    \/ v.kind = "array" /\ Len(v.items) > 0
    \/ v.kind = "string" /\ Len(v.chars) > 0

\* lines 183-205, and the same block for each of the other five options
ResolveOption(s, key) ==
    IF IsComponentPathsObject(ComponentPathsConfig(s))
       /\ IsArray(ComponentPathsConfig(s).props[key])
    THEN ComponentPathsConfig(s).props[key]
    ELSE IF HasPositiveLength(NewConfigGet(s, key)) THEN NewConfigGet(s, key)
    ELSE IF HasPositiveLength(OldConfigGet(s, key)) THEN OldConfigGet(s, key)
    ELSE Arr(BuiltInDefault(key))

\* line 335
getConfiguredPaths(s) == [ key \in Options |-> ResolveOption(s, key) ]

\* no entry set by the user
NoProps == [ key \in Options |-> Undefined ]
NoSettings == [ componentPaths |-> Undefined, flat |-> NoProps, legacy |-> NoProps ]

SettingsIdle ==
    /\ settings = NoSettings
    /\ configuredPaths = Null
    /\ configPc = "idle"

GateIdle ==
    /\ gateLine = Empty
    /\ gateCursor = 0
    /\ gateResult = Null
    /\ gatePc = "idle"

NavIdle ==
    /\ navRequest = NotRead
    /\ quickPick = Null
    /\ quickPickShown = FALSE
    /\ accepted = FALSE
    /\ opened = <<>>
    /\ timer = FALSE
    /\ definition = Null
    /\ activeIsSource = TRUE

BaseIdle ==
    /\ fullComponentPath = Empty
    /\ candidateBasePaths = <<>>
    /\ baseMatch = Null
    /\ basePc = "idle"

\* FORMATTING_STYLES, src/utils/constants.ts:37-40
sMultiline == "multiline"
sSingleLine == "singleLine"

\* getFormattingConfig(), src/utils/config.ts:14-23, as formatTag reads it: the
\* style, and two limits the returned object does not carry (undefined is Null)
FormattingConfig(style, minAttributes, maxLength) ==
    [formattingStyle |-> style, minAttributesMultiline |-> minAttributes,
     maxLineLength |-> maxLength]

DefaultFormattingConfig == FormattingConfig(sMultiline, Null, Null)

FormatIdle ==
    /\ document = <<>>
    /\ formatConfig = DefaultFormattingConfig
    /\ formatRange = NotRead
    /\ edits = Null
    /\ formatPc = "idle"

\* the settings of the section that activation, the registrations and the
\* formatter read: enabled, formattingStyle and debug (src/utils/config.ts:18-19, 38)
DefaultExtSettings == [enabled |-> TRUE, formattingStyle |-> sMultiline, debug |-> FALSE]

ExtIdle ==
    /\ extSettings = DefaultExtSettings
    /\ registry = <<>>
    /\ disposables = <<>>
    /\ subscriptions = <<>>
    /\ extState = "inactive"
    /\ configChanges = 0

CacheIdle ==
    /\ twigOnDisk = {}
    /\ componentDirs = {}
    /\ cache = {}
    /\ fileWatchers = {}
    /\ isScanning = FALSE
    /\ scanQueue = <<>>
    /\ pending = <<>>
    /\ debounced = {}
    /\ returned = Null
    /\ unscanned = {}
    /\ calls = 0
    /\ fileEvents = 0

----------------------------------------------------------------------------
(* parseComponentNamespace, src/utils/componentFinder.ts:8-112 *)

\* lines 29-37: the base path as a namespace; empty and excluded parts skipped
IsNamespacePart(part, excluded) ==
    part # Empty /\ ~ArrIncludes(excluded, toLowerCase(part))

FilteredParts(cleanBasePath, excluded) ==
    SelectSeq(split(cleanBasePath, "/"), LAMBDA part : IsNamespacePart(part, excluded))

BasePathNamespace(cleanBasePath, excluded) ==
    join(FilteredParts(cleanBasePath, excluded), ":")

\* line 42
IsExactMatch(basePathNamespace, ns) ==
    basePathNamespace # Empty /\ basePathNamespace = ns

\* line 48
IsPrefixMatch(basePathNamespace, ns) ==
    basePathNamespace # Empty /\ startsWith(ns, basePathNamespace \o <<":">>)

\* mutant: off by one, the separating ':' stays in front of the remainder
PrefixRemainder_KeepsColon(basePathNamespace, ns) ==
    substring(ns, Len(basePathNamespace))

\* line 50
PrefixRemainder(basePathNamespace, ns) ==
    substring(ns, Len(basePathNamespace) + 1)

\* line 56
IsReverseMatch(basePathNamespace, ns) ==
    basePathNamespace # Empty /\ startsWith(basePathNamespace, ns \o <<":">>)

\* line 62
IsContainedMatch(basePathNamespace, ns) ==
    basePathNamespace # Empty /\ includes(basePathNamespace, ns)

NoMatch(ns) == [matchedBasePath |-> Null, remainingNamespace |-> ns]
Matched(cleanBasePath, rest) ==
    [matchedBasePath |-> Some(cleanBasePath), remainingNamespace |-> rest]

\* lines 24-66: the body of the first loop for one base path; Null = fall through
FirstLoopBody(ns, basePath, excluded) ==
    LET cleanBasePath == StripTrailingSlashes(basePath)
        basePathNamespace == BasePathNamespace(cleanBasePath, excluded)
    IN IF IsExactMatch(basePathNamespace, ns)
         THEN Some(Matched(cleanBasePath, Empty))
       ELSE IF IsPrefixMatch(basePathNamespace, ns)
         THEN Some(Matched(cleanBasePath, PrefixRemainder(basePathNamespace, ns)))
       ELSE IF IsReverseMatch(basePathNamespace, ns)
         THEN Some(Matched(cleanBasePath, Empty))
       ELSE IF IsContainedMatch(basePathNamespace, ns)
         THEN Some(Matched(cleanBasePath, Empty))
       ELSE Null

\* lines 74-81: number of leading parts equal case-insensitively
RECURSIVE MatchedParts(_, _, _)
MatchedParts(basePathParts, namespaceParts, i) ==
    IF i <= Len(basePathParts) /\ i <= Len(namespaceParts)
       /\ toLowerCase(basePathParts[i]) = toLowerCase(namespaceParts[i])
    THEN 1 + MatchedParts(basePathParts, namespaceParts, i + 1)
    ELSE 0

\* mutant: the unordered comparison is case-sensitive
IsUnorderedHit_CaseSensitive(basePathParts, part) ==
    \E j \in 1..Len(basePathParts) : basePathParts[j] = part

\* lines 90-100: is this namespace part one of the base path's parts
IsUnorderedHit(basePathParts, part) ==
    \E j \in 1..Len(basePathParts) : toLowerCase(basePathParts[j]) = toLowerCase(part)

\* lines 69-107: the body of the second loop for one base path
SecondLoopBody(ns, basePath, excluded) ==
    LET cleanBasePath == StripTrailingSlashes(basePath)
        basePathParts == FilteredParts(cleanBasePath, excluded)
        namespaceParts == split(ns, ":")
        matchedParts == MatchedParts(basePathParts, namespaceParts, 1)
        matchedNamespaceParts ==
            SelectSeq(namespaceParts, LAMBDA part : IsUnorderedHit(basePathParts, part))
        unmatchedNamespaceParts ==
            SelectSeq(namespaceParts, LAMBDA part : ~IsUnorderedHit(basePathParts, part))
    IN IF matchedParts > 0
         THEN Some(Matched(cleanBasePath,
                  join(SubSeq(namespaceParts, matchedParts + 1, Len(namespaceParts)), ":")))
       ELSE IF Len(matchedNamespaceParts) > 0
         THEN Some(Matched(cleanBasePath, join(unmatchedNamespaceParts, ":")))
       ELSE Null

\* the first base path, in list order, for which the loop body returns
RECURSIVE FirstLoop(_, _, _, _)
FirstLoop(ns, paths, excluded, i) ==
    IF i > Len(paths) THEN Null
    ELSE IF FirstLoopBody(ns, paths[i], excluded) # Null
         THEN FirstLoopBody(ns, paths[i], excluded)
    ELSE FirstLoop(ns, paths, excluded, i + 1)

RECURSIVE SecondLoop(_, _, _, _)
SecondLoop(ns, paths, excluded, i) ==
    IF i > Len(paths) THEN Null
    ELSE IF SecondLoopBody(ns, paths[i], excluded) # Null
         THEN SecondLoopBody(ns, paths[i], excluded)
    ELSE SecondLoop(ns, paths, excluded, i + 1)

\* mutant: the partial strategies are tried before the precise ones
parseComponentNamespace_PartialFirst(ns, paths, excluded) ==
    LET first == FirstLoop(ns, paths, excluded, 1)
        second == SecondLoop(ns, paths, excluded, 1)
    IN IF second # Null THEN second[1]
       ELSE IF first # Null THEN first[1]
       ELSE NoMatch(ns)

\* lines 8-112
parseComponentNamespace(ns, paths, excluded) ==
    LET first == FirstLoop(ns, paths, excluded, 1)
        second == SecondLoop(ns, paths, excluded, 1)
    IN IF first # Null THEN first[1]
       ELSE IF second # Null THEN second[1]
       ELSE NoMatch(ns)

----------------------------------------------------------------------------
(* The matcher called on its own: SpecMatch *)

\* sequences over S of length 0..n
RECURSIVE SeqsUpTo(_, _)
SeqsUpTo(S, n) ==
    IF n = 0 THEN { <<>> }
    ELSE LET shorter == SeqsUpTo(S, n - 1)
         IN shorter \cup { Append(q, x) : q \in { r \in shorter : Len(r) = n - 1 }, x \in S }

BasePathPool ==
    { sSrc,
      Path(<<sSrc, sApp>>),
      Path(<<sSrc, sApp>>) \o <<"/", "/">>,
      Path(<<sSrc, sApp, sMenu>>),
      Path(<<sTemplates, sAppLower>>),
      Path(<<sMenu, sApp>>),
      Path(<<sSrc, sMenu>>) \o <<"/">>,
      sApps }

NamespacePool ==
    { Empty, sApp, sAppLower, sAp, sMenu, sItem,
      Ns(<<sApp, sMenu>>), Ns(<<sMenu, sApp>>), Ns(<<sApp, sItem>>),
      Ns(<<sApp, sMenu, sItem>>), Ns(<<sItem, sMenu>>), Ns(<<sSrc, sApp>>) }

ExcludedPool ==
    { DefaultExcludedDirectoryNames, <<sSrc>>, <<>> }

ExpandIdle ==
    /\ expandArgs = NotRead
    /\ expandResult = Null
    /\ expandPc = "idle"

CallIdle ==
    /\ tag = NotRead
    /\ matchResults = NotRead
    /\ phpPossiblePaths = <<>>
    /\ twigPossiblePaths = <<>>
    /\ primaryPhpFiles = <<>>
    /\ primaryTwigFiles = <<>>
    /\ fallbackProbes = <<>>
    /\ foundPhpFiles = <<>>
    /\ foundTwigFiles = <<>>
    /\ findReturn = Null
    /\ findPc = "idle"
    /\ configReads = <<>>
    /\ primaryProbes = <<>>
    /\ probeErrors = {}

FindIdle ==
    /\ workspaceFolders = Null
    /\ files = {}
    /\ CallIdle

MatchIdle ==
    /\ fullNamespace = Empty
    /\ basePaths = <<>>
    /\ parseResult = Null
    /\ parsePc = "idle"

\* the matcher reads only excludedDirectoryNames of the configuration
InitMatch ==
    /\ excludedDirectoryNames = DefaultExcludedDirectoryNames
    /\ pathOptions = NotRead
    /\ MatchIdle
    /\ ExpandIdle
    /\ FindIdle
    /\ SettingsIdle
    /\ GateIdle
    /\ NavIdle
    /\ BaseIdle
    /\ FormatIdle
    /\ ExtIdle
    /\ CacheIdle

\* the user edits symfonyUxTwigComponent.excludedDirectoryNames between two calls
SetExcludedDirectoryNames ==
    /\ parsePc = "idle"
    /\ \E ex \in ExcludedPool :
          /\ ex # excludedDirectoryNames
          /\ excludedDirectoryNames' = ex
    /\ UNCHANGED <<pathOptions, matchVars, expandVars, findVars, settingsVars, gateVars, navVars, baseVars, formatVars, extVars, cacheVars>>

\* one call of parseComponentNamespace(fullNamespace, basePaths); the excluded
\* names are read from the configuration inside the call (line 17)
ParseCall ==
    /\ parsePc = "idle"
    /\ \E ns \in NamespacePool, paths \in SeqsUpTo(BasePathPool, MaxBasePaths) :
          /\ fullNamespace' = ns
          /\ basePaths' = paths
          /\ parseResult' =
                Some(parseComponentNamespace(ns, paths, excludedDirectoryNames))
    /\ parsePc' = "done"
    /\ UNCHANGED <<configVars, expandVars, findVars, settingsVars, gateVars, navVars, baseVars, formatVars, extVars, cacheVars>>

\* the caller drops the result
ParseReturn ==
    /\ parsePc = "done"
    /\ fullNamespace' = Empty
    /\ basePaths' = <<>>
    /\ parseResult' = Null
    /\ parsePc' = "idle"
    /\ UNCHANGED <<configVars, expandVars, findVars, settingsVars, gateVars, navVars, baseVars, formatVars, extVars, cacheVars>>

NextMatch == SetExcludedDirectoryNames \/ ParseCall \/ ParseReturn

SpecMatch == InitMatch /\ [][NextMatch]_vars

----------------------------------------------------------------------------
(* generatePossiblePaths, unnamed/part_002:119-144 *)

\* lines 125-126: the namespace handed to the templates
ExpanderNamespace(componentName, remainingNamespace) ==
    replaceFirst(replaceFirst(remainingNamespace, <<":">>, <<"/">>),
                 <<"/">> \o componentName, Empty)

\* lines 129-138: one template resolved against the base path
ResolveTemplate(basePath, componentPath, componentName, namespacePath) ==
    LET substituted ==
            replaceFirst(replaceFirst(componentPath, sNamespaceVar, namespacePath),
                         sComponentNameVar, componentName)
        resolvedPath == CollapseSlashes(StripLeadingSlash(CollapseSlashes(substituted)))
    IN pathJoin(<<basePath, resolvedPath>>)

generatePossiblePaths(basePath, componentPaths, componentName, remainingNamespace) ==
    [ i \in 1..Len(componentPaths) |->
        ResolveTemplate(basePath, componentPaths[i], componentName,
                        ExpanderNamespace(componentName, remainingNamespace)) ]

----------------------------------------------------------------------------
(* The expander called on its own: SpecExpand *)

ExpandBasePathPool == { sSrc, Path(<<sSrc, sApp>>) \o <<"/">>, sTemplates }

ExpandTemplatePool ==
    { <<"T","w","i","g","/","C","o","m","p","o","n","e","n","t","/","${namespace}","/","${componentName}",".php">>,
      <<"${namespace}","/","${componentName}",".html.twig">>,
      <<"c","o","m","p","o","n","e","n","t","s","/","/","${namespace}","/","${componentName}",".php">> }

ExpandNamePool == { sStat, sItem }

ExpandRemainderPool ==
    { Empty, sCards, Ns(<<sWidget, sCards>>), Ns(<<sApp, sWidget, sCards>>),
      Ns(<<sItem, sStat>>) }

InitExpand ==
    /\ excludedDirectoryNames = NotRead
    /\ pathOptions = NotRead
    /\ MatchIdle
    /\ ExpandIdle
    /\ FindIdle
    /\ SettingsIdle
    /\ GateIdle
    /\ NavIdle
    /\ BaseIdle
    /\ FormatIdle
    /\ ExtIdle
    /\ CacheIdle

\* one call of generatePossiblePaths
ExpandCall ==
    /\ expandPc = "idle"
    /\ \E b \in ExpandBasePathPool,
          t \in SeqsUpTo(ExpandTemplatePool, MaxTemplates) \ { <<>> },
          c \in ExpandNamePool,
          r \in ExpandRemainderPool :
          /\ expandArgs' = [ basePath |-> b, componentPaths |-> t,
                             componentName |-> c, remainingNamespace |-> r ]
          /\ expandResult' = Some(generatePossiblePaths(b, t, c, r))
    /\ expandPc' = "done"
    /\ UNCHANGED <<configVars, matchVars, findVars, settingsVars, gateVars, navVars, baseVars, formatVars, extVars, cacheVars>>

\* the caller drops the result
ExpandReturn ==
    /\ expandPc = "done"
    /\ expandArgs' = NotRead
    /\ expandResult' = Null
    /\ expandPc' = "idle"
    /\ UNCHANGED <<configVars, matchVars, findVars, settingsVars, gateVars, navVars, baseVars, formatVars, extVars, cacheVars>>

NextExpand == ExpandCall \/ ExpandReturn

SpecExpand == InitExpand /\ [][NextExpand]_vars

----------------------------------------------------------------------------
(* The cursor gate of findComponentFiles, src/utils/componentFinder.ts:121-153 *)

sTwigOpen == <<"<", "t", "w", "i", "g", ":">>

\* [A-Za-z0-9_]
NameChars ==
    { Upper[i] : i \in 1..Len(Upper) } \cup { Lower[i] : i \in 1..Len(Lower) }
    \cup {"0", "1", "2", "3", "4", "5", "6", "7", "8", "9", "_"}

IsNameChar(c) == c \in NameChars

\* [A-Za-z0-9_:]
NamespaceChars == NameChars \cup {":"}

\* the last position of the run of characters of the class that starts at
\* position from (from - 1 when the run is empty)
RECURSIVE RunEnd(_, _, _)
RunEnd(line, from, class) ==
    IF from <= Len(line) /\ line[from] \in class THEN RunEnd(line, from + 1, class) ELSE from - 1

\* the colons of the run after "<twig:" at position i that can separate group 1
\* from group 2: something before them, a name character after them
SeparatorsAt(line, i) ==
    { c \in (i + 7)..RunEnd(line, i + 6, NamespaceChars) :
        /\ line[c] = ":"
        /\ c + 1 <= Len(line)
        /\ IsNameChar(line[c + 1]) }

\* TWIG_COMPONENT_NAMESPACE_REGEX matches at position i (1-based)
MatchesAt(line, i) ==
    /\ i + 5 <= Len(line)
    /\ SubSeq(line, i, i + 5) = sTwigOpen
    /\ SeparatorsAt(line, i) # {}

\* the match at position i: group 1 is greedy, so the last separator is taken;
\* index is 0-based as in JavaScript
MatchAt(line, i) ==
    LET c == CHOOSE x \in SeparatorsAt(line, i) : \A y \in SeparatorsAt(line, i) : y <= x
    IN [ index |-> i - 1,
         namespace |-> SubSeq(line, i + 6, c - 1),
         name |-> SubSeq(line, c + 1, RunEnd(line, c + 1, NameChars)) ]

\* TWIG_COMPONENT_NAMESPACE_REGEX.exec(line), line 124: the leftmost match
RegexExec(line) ==
    LET starts == { i \in 1..Len(line) : MatchesAt(line, i) }
    IN IF starts = {} THEN Null
       ELSE Some(MatchAt(line, CHOOSE i \in starts : \A j \in starts : i <= j))

\* line.indexOf(sub, from) with 0-based positions
LineIndexOf(line, sub, from) == indexFrom(line, sub, from + 1) - 1

\* lines 124-153: null when the gate fails, else the namespace and component name
CursorGate(line, character) ==
    LET match == RegexExec(line)
    IN IF match = Null THEN Null
       ELSE LET namespaceStart == LineIndexOf(line, match[1].namespace, match[1].index + 6)
                namespaceEnd == namespaceStart + Len(match[1].namespace)
                componentStart == LineIndexOf(line, match[1].name, namespaceEnd + 1)
                componentEnd == componentStart + Len(match[1].name)
                isOnNamespace == character >= namespaceStart /\ character <= namespaceEnd
                isOnComponent == character >= componentStart /\ character <= componentEnd
            IN IF ~isOnNamespace /\ ~isOnComponent THEN Null
               ELSE Some([ fullNamespace |-> match[1].namespace,
                           componentName |-> match[1].name ])

----------------------------------------------------------------------------
(* The cursor gate against lines and cursor columns: SpecGate *)

\* lines are an indentation, a tag, and what follows the tag
LineIndentPool == { Empty, <<" ", " ">> }
LineTagPool ==
    { sTwigOpen \o <<"A", ":", "B">>,
      sTwigOpen \o <<"A", "b", ":", "C", ":", "D", "e">>,
      sTwigOpen \o <<"B">> }
LineRestPool ==
    { Empty,
      <<" ", "x", "=", "1", ">">>,
      <<">">> \o sTwigOpen \o <<"C", ":", "D", ">">> }

LinePool ==
    { indent \o t \o rest : indent \in LineIndentPool, t \in LineTagPool, rest \in LineRestPool }

InitGate ==
    /\ excludedDirectoryNames = DefaultExcludedDirectoryNames
    /\ pathOptions = NotRead
    /\ MatchIdle
    /\ ExpandIdle
    /\ FindIdle
    /\ SettingsIdle
    /\ GateIdle
    /\ NavIdle
    /\ BaseIdle
    /\ FormatIdle
    /\ ExtIdle
    /\ CacheIdle

\* findComponentFiles is called for a position of the document
GateCall ==
    /\ gatePc = "idle"
    /\ \E line \in LinePool :
          \E character \in 0..Len(line) :
              /\ gateLine' = line
              /\ gateCursor' = character
              /\ gateResult' = CursorGate(line, character)
    /\ gatePc' = "done"
    /\ UNCHANGED <<configVars, matchVars, expandVars, findVars, settingsVars, navVars, baseVars, formatVars, extVars, cacheVars>>

GateReturn ==
    /\ gatePc = "done"
    /\ gateLine' = Empty
    /\ gateCursor' = 0
    /\ gateResult' = Null
    /\ gatePc' = "idle"
    /\ UNCHANGED <<configVars, matchVars, expandVars, findVars, settingsVars, navVars, baseVars, formatVars, extVars, cacheVars>>

NextGate ==
    \/ GateCall
    \/ GateReturn

SpecGate == InitGate /\ [][NextGate]_vars

----------------------------------------------------------------------------
(* getConfiguredPaths against every combination of settings: SpecConfig *)

\* what the user can write for an option: a list, empty or not, or a value of
\* the wrong shape
SettingValuePool == { Arr(<<>>), Arr(<<sApp>>), Arr(<<sMenu>>), Str(sApp), Num }

\* what the user can write for 'componentPaths': nothing, the array form, a
\* string, or the object form
ComponentPathsPool == { Undefined, Arr(<<sSrc>>), Str(sSrc), Obj(NoProps) }

Levels == { "nested", "flat", "legacy" }

NestedProps(s) ==
    IF s.componentPaths.kind = "object" THEN s.componentPaths.props ELSE NoProps

\* the option entries the user has set
SetEntries(s) ==
    { <<"nested", k>> : k \in { o \in Options : NestedProps(s)[o] # Undefined } }
    \cup { <<"flat", k>> : k \in { o \in Options : s.flat[o] # Undefined } }
    \cup { <<"legacy", k>> : k \in { o \in Options : s.legacy[o] # Undefined } }

WithEntry(s, level, key, v) ==
    CASE level = "nested" ->
            [s EXCEPT !.componentPaths = Obj([NestedProps(s) EXCEPT ![key] = v])]
      [] level = "flat" -> [s EXCEPT !.flat[key] = v]
      [] level = "legacy" -> [s EXCEPT !.legacy[key] = v]

InitConfig ==
    /\ excludedDirectoryNames = DefaultExcludedDirectoryNames
    /\ pathOptions = NotRead
    /\ MatchIdle
    /\ ExpandIdle
    /\ FindIdle
    /\ SettingsIdle
    /\ GateIdle
    /\ NavIdle
    /\ BaseIdle
    /\ FormatIdle
    /\ ExtIdle
    /\ CacheIdle

\* the user writes or removes the 'componentPaths' entry
SetComponentPaths ==
    /\ configPc = "idle"
    /\ \E v \in ComponentPathsPool :
          /\ v.kind # settings.componentPaths.kind
          /\ settings' = [settings EXCEPT !.componentPaths = v]
    /\ UNCHANGED <<configVars, matchVars, expandVars, findVars, configuredPaths, configPc, gateVars, navVars, baseVars, formatVars, extVars, cacheVars>>

\* the user writes or removes one option, inside the 'componentPaths' object, as a
\* key of the section, or as a key of the old section
UpdateSetting ==
    /\ configPc = "idle"
    /\ \E level \in Levels, key \in Options, v \in SettingValuePool \cup {Undefined} :
          /\ level = "nested" => settings.componentPaths.kind = "object"
          /\ WithEntry(settings, level, key, v) # settings
          /\ Cardinality(SetEntries(WithEntry(settings, level, key, v))) <= MaxSettings
          /\ settings' = WithEntry(settings, level, key, v)
    /\ UNCHANGED <<configVars, matchVars, expandVars, findVars, configuredPaths, configPc, gateVars, navVars, baseVars, formatVars, extVars, cacheVars>>

GetConfiguredPathsCall ==
    /\ configPc = "idle"
    /\ configuredPaths' = Some(getConfiguredPaths(settings))
    /\ configPc' = "done"
    /\ UNCHANGED <<configVars, matchVars, expandVars, findVars, settings, gateVars, navVars, baseVars, formatVars, extVars, cacheVars>>

GetConfiguredPathsReturn ==
    /\ configPc = "done"
    /\ configuredPaths' = Null
    /\ configPc' = "idle"
    /\ UNCHANGED <<configVars, matchVars, expandVars, findVars, settings, gateVars, navVars, baseVars, formatVars, extVars, cacheVars>>

NextConfig ==
    \/ SetComponentPaths
    \/ UpdateSetting
    \/ GetConfiguredPathsCall
    \/ GetConfiguredPathsReturn

SpecConfig == InitConfig /\ [][NextConfig]_vars

----------------------------------------------------------------------------
(* findComponentFiles, src/utils/componentFinder.ts:115-401 *)

\* a JavaScript string or null used as a condition
Truthy(nullable) == nullable # Null /\ nullable[1] # Empty

RECURSIVE Flatten(_)
Flatten(lists) ==
    IF Len(lists) = 0 THEN <<>> ELSE Head(lists) \o Flatten(Tail(lists))

\* namespace.replace(/:/g, '/')
NamespaceAsPath(ns) == replaceAllChar(ns, ":", "/")

\* mutant: the base path and the relative path are concatenated without path.join
ExpandTemplate_Concatenated(basePath, template, ns, componentName) ==
    basePath \o replaceFirst(replaceFirst(template, sNamespaceVar, NamespaceAsPath(ns)),
                             sComponentNameVar, componentName)

\* lines 186-191 (and 200-205, 217-222, 231-236, 276-281): one template filled in
ExpandTemplate(basePath, template, ns, componentName) ==
    pathJoin(<< basePath,
                replaceFirst(replaceFirst(template, sNamespaceVar, NamespaceAsPath(ns)),
                             sComponentNameVar, componentName) >>)

ExpandAll(basePath, templates, ns, componentName) ==
    [ i \in 1..Len(templates) |-> ExpandTemplate(basePath, templates[i], ns, componentName) ]

\* lines 184-195 and 198-209: the templates under the matched base path
MatchedPaths(result, templates, componentName) ==
    IF Truthy(result.matchedBasePath)
    THEN ExpandAll(result.matchedBasePath[1], templates, result.remainingNamespace,
                   componentName)
    ELSE <<>>

\* line 212: the all-combinations fallback runs only when neither kind matched
FallbackApplies(phpResult, twigResult) ==
    ~Truthy(phpResult.matchedBasePath) /\ ~Truthy(twigResult.matchedBasePath)

\* lines 215-226 and 229-240: every base path with every template, full namespace
FallbackPaths(paths, templates, ns, componentName) ==
    Flatten([ i \in 1..Len(paths) |-> ExpandAll(paths[i], templates, ns, componentName) ])

\* lines 245-254: {base}/components/{namespace}/{componentName}.html.twig
DirectPath(basePath, ns, componentName) ==
    pathJoin(<<basePath, sComponents, NamespaceAsPath(ns), componentName \o sHtmlTwig>>)

DirectPaths(twigBases, ns, componentName) ==
    [ i \in 1..Len(twigBases) |-> DirectPath(twigBases[i], ns, componentName) ]

\* line 264: matchedBasePath.replace(/^src\//, '')
PhpBasePart(matchedBasePath) ==
    IF startsWith(matchedBasePath, sSrc \o <<"/">>)
    THEN substring(matchedBasePath, Len(sSrc) + 1)
    ELSE matchedBasePath

\* lines 270-271 and 291-292
IncludesAnyCase(s, sub) ==
    includes(s, sub) \/ includes(toLowerCase(s), toLowerCase(sub))

\* lines 262-287
AdditionalFromPhp(phpResult, twigBases, twigTemplates, componentName) ==
    IF Truthy(phpResult.matchedBasePath)
    THEN Flatten([ i \in 1..Len(twigBases) |->
            IF IncludesAnyCase(twigBases[i], PhpBasePart(phpResult.matchedBasePath[1]))
            THEN ExpandAll(twigBases[i], twigTemplates, phpResult.remainingNamespace,
                           componentName)
            ELSE <<>> ])
    ELSE <<>>

\* lines 290-298
SimplifiedPaths(twigBases, ns, componentName) ==
    Flatten([ i \in 1..Len(twigBases) |->
        IF IncludesAnyCase(twigBases[i], NamespaceAsPath(ns))
        THEN << pathJoin(<<twigBases[i], componentName \o sHtmlTwig>>) >>
        ELSE <<>> ])

\* lines 180-195, 211-226
PhpPossiblePaths(opts, phpResult, twigResult, ns, componentName) ==
    MatchedPaths(phpResult, opts.phpComponentPaths, componentName)
    \o (IF FallbackApplies(phpResult, twigResult)
        THEN FallbackPaths(opts.phpBasePaths, opts.phpComponentPaths, ns, componentName)
        ELSE <<>>)

\* lines 181, 197-209, 228-254: the template candidates before line 256
TwigPathsBeforeAdditional(opts, phpResult, twigResult, ns, componentName) ==
    MatchedPaths(twigResult, opts.twigTemplatePaths, componentName)
    \o (IF FallbackApplies(phpResult, twigResult)
        THEN FallbackPaths(opts.twigBasePaths, opts.twigTemplatePaths, ns, componentName)
        ELSE <<>>)
    \o DirectPaths(opts.twigBasePaths, ns, componentName)

\* lines 181-299
TwigPossiblePaths(opts, phpResult, twigResult, ns, componentName) ==
    LET before == TwigPathsBeforeAdditional(opts, phpResult, twigResult, ns, componentName)
    IN IF Len(before) = 0
          \/ (twigResult.matchedBasePath = Null /\ phpResult.matchedBasePath # Null)
       THEN before
            \o AdditionalFromPhp(phpResult, opts.twigBasePaths, opts.twigTemplatePaths,
                                 componentName)
            \o SimplifiedPaths(opts.twigBasePaths, ns, componentName)
       ELSE before

\* the disk as one call sees it: the files, and the paths whose check fails
\* (permission denied, I/O error)
Disk(fileSet, failing) == [files |-> fileSet, failing |-> failing]

\* a file, or a directory that holds one of the files
Exists(fileSet, p) ==
    LET q == StripTrailingSlashes(p)
    IN \E f \in fileSet : f = q \/ startsWith(f, q \o <<"/">>)

\* fs.existsSync: true when the path can be accessed, false when it is absent
\* and false when the access fails; it does not throw
existsSync(disk, p) ==
    IF StripTrailingSlashes(p) \in disk.failing THEN FALSE ELSE Exists(disk.files, p)

\* mutant: the search of a root stops at its first existing candidate
ExistingUnderRoot_FirstOnly(disk, root, possiblePaths) ==
    LET all == SelectSeq([ c \in 1..Len(possiblePaths) |-> pathJoin(<<root, possiblePaths[c]>>) ],
                         LAMBDA f : existsSync(disk, f))
    IN IF Len(all) = 0 THEN <<>> ELSE <<all[1]>>

\* mutant: a failing check ends the search of the root's list
ExistingUnderRoot_AbortsOnError(disk, root, possiblePaths) ==
    LET joined == [ c \in 1..Len(possiblePaths) |-> pathJoin(<<root, possiblePaths[c]>>) ]
        bad == { c \in 1..Len(joined) : joined[c] \in disk.failing }
        checked == IF bad = {} THEN joined
                   ELSE SubSeq(joined, 1, (CHOOSE c \in bad : \A d \in bad : c <= d) - 1)
    IN SelectSeq(checked, LAMBDA f : existsSync(disk, f))

\* lines 309-317 and 320-328: the candidates that exist under one workspace folder
ExistingUnderRoot(disk, root, possiblePaths) ==
    SelectSeq([ c \in 1..Len(possiblePaths) |-> pathJoin(<<root, possiblePaths[c]>>) ],
              LAMBDA f : existsSync(disk, f))

\* lines 304-329: all workspace folders in order
FindExisting(disk, roots, possiblePaths) ==
    Flatten([ r \in 1..Len(roots) |-> ExistingUnderRoot(disk, roots[r], possiblePaths) ])

\* mutant: only the template candidates are probed
PrimaryProbes_TwigOnly(roots, phpPaths, twigPaths) ==
    Flatten([ r \in 1..Len(roots) |->
        [ c \in 1..Len(twigPaths) |-> pathJoin(<<roots[r], twigPaths[c]>>) ] ])

\* lines 307-329: every existsSync call of the primary search, in order: for each
\* workspace folder the logic candidates, then the template candidates
PrimaryProbes(roots, phpPaths, twigPaths) ==
    Flatten([ r \in 1..Len(roots) |->
        [ c \in 1..Len(phpPaths) |-> pathJoin(<<roots[r], phpPaths[c]>>) ]
        \o [ c \in 1..Len(twigPaths) |-> pathJoin(<<roots[r], twigPaths[c]>>) ] ])

\* the getConfiguredPaths() calls of one findComponentFiles call, in order, each
\* with the options taken from it: line 158, line 17 in each of the two
\* parseComponentNamespace calls of lines 166-167, and line 336 when the
\* aggressive search runs
ConfigReads(aggressive) ==
    << [ at |-> "findComponentFiles:158",
         taken |-> {"phpBasePaths", "phpComponentPaths", "twigBasePaths", "twigTemplatePaths"} ],
       [ at |-> "parseComponentNamespace:17", taken |-> {"excludedDirectoryNames"} ],
       [ at |-> "parseComponentNamespace:17", taken |-> {"excludedDirectoryNames"} ] >>
    \o (IF aggressive
        THEN << [ at |-> "findComponentFiles:336", taken |-> {"fallbackTemplateDirs"} ] >>
        ELSE <<>>)

\* mutant: the aggressive search no longer asks for a found PHP file
AggressiveApplies_AnyMissingTwig(phpFound, twigFound) ==
    Len(twigFound) = 0

\* line 332
AggressiveApplies(phpFound, twigFound) ==
    Len(phpFound) > 0 /\ Len(twigFound) = 0

\* lines 358-378: the two probes for one template base path
AggressiveProbesFor(root, basePath, ns, componentName) ==
    << pathJoin(<<root, pathJoin(<<basePath, componentName \o sHtmlTwig>>)>>),
       pathJoin(<<root, DirectPath(basePath, ns, componentName)>>) >>

\* lines 339-384: every existsSync call of the aggressive search, in order; a
\* fallback directory that does not exist is skipped after its own probe
AggressiveProbes(disk, roots, opts, ns, componentName) ==
    Flatten([ r \in 1..Len(roots) |->
        Flatten([ d \in 1..Len(opts.fallbackTemplateDirs) |->
            LET templateBasePath == pathJoin(<<roots[r], opts.fallbackTemplateDirs[d]>>)
            IN << [dir |-> TRUE, path |-> templateBasePath] >>
               \o (IF existsSync(disk, templateBasePath)
                   THEN Flatten([ b \in 1..Len(opts.twigBasePaths) |->
                           [ k \in 1..2 |->
                               [dir |-> FALSE,
                                path |-> AggressiveProbesFor(roots[r], opts.twigBasePaths[b],
                                                             ns, componentName)[k]] ] ])
                   ELSE <<>>) ]) ])

\* lines 364-367 and 375-378: the probed files that exist are pushed
AggressiveFound(disk, probes) ==
    LET hits == SelectSeq(probes, LAMBDA p : ~p.dir /\ existsSync(disk, p.path))
    IN [ i \in 1..Len(hits) |-> hits[i].path ]

----------------------------------------------------------------------------
(* Navigation requests against a changing workspace: Spec *)

sW1 == <<"/", "w", "1">>
sW2 == <<"/", "w", "2">>

WorkspacePool == { Null, Some(<<sW1>>), Some(<<sW1, sW2>>) }

\* Scenario A: base path "src", template "Widget/${namespace}/${componentName}.ext"
ScenarioAOptions ==
    [ phpBasePaths |-> <<sSrc>>,
      phpComponentPaths |-> << <<"W","i","d","g","e","t","/","${namespace}","/","${componentName}",".ext">> >>,
      twigBasePaths |-> <<sTemplates>>,
      twigTemplatePaths |-> << <<"c","o","m","p","o","n","e","n","t","s","/","${namespace}","/","${componentName}",".html.twig">> >>,
      fallbackTemplateDirs |-> <<sTemplates>> ]

\* the example configuration of the README, with the defaults behind it
ReadmeOptions ==
    [ phpBasePaths |-> << <<"s","r","c","/","A","p","p">>, sSrc >>,
      phpComponentPaths |-> << <<"T","w","i","g","/","C","o","m","p","o","n","e","n","t","/","${namespace}","/","${componentName}",".php">> >>,
      twigBasePaths |-> << <<"t","e","m","p","l","a","t","e","s","/","a","p","p">> >>,
      twigTemplatePaths |-> << <<"c","o","m","p","o","n","e","n","t","s","/","${namespace}","/","${componentName}",".html.twig">> >>,
      fallbackTemplateDirs |-> <<sTemplates>> ]

ConfigPool ==
    { <<DefaultExcludedDirectoryNames, DefaultPathOptions>>,
      <<<<sSrc>>, ScenarioAOptions>>,
      <<<<sSrc>>, [ScenarioAOptions EXCEPT !.twigBasePaths = << <<"t","e","m","p","l","a","t","e","s","/","W","i","d","g","e","t">> >>]>>,
      <<DefaultExcludedDirectoryNames, ReadmeOptions>>,
      <<DefaultExcludedDirectoryNames,
        [ReadmeOptions EXCEPT !.phpBasePaths = << <<"s","r","c","/","A","p","p">> >>,
                              !.twigBasePaths = <<sTemplates>>]>> }

RelativeFilePool ==
    { <<"s","r","c","/","W","i","d","g","e","t","/","W","i","d","g","e","t","/","C","a","r","d","s","/","S","t","a","t",".ext">>,
      <<"s","r","c","/","C","o","m","p","o","n","e","n","t","s","/","C","a","r","d","s","/","S","t","a","t",".php">>,
      <<"s","r","c","/","T","w","i","g","/","C","o","m","p","o","n","e","n","t","/","C","a","r","d","s","/","S","t","a","t",".php">>,
      <<"t","e","m","p","l","a","t","e","s","/","c","o","m","p","o","n","e","n","t","s","/","C","a","r","d","s","/","S","t","a","t",".html.twig">>,
      <<"t","e","m","p","l","a","t","e","s","/","S","t","a","t",".html.twig">>,
      <<"s","r","c","/","A","p","p","/","T","w","i","g","/","C","o","m","p","o","n","e","n","t","/","C","a","r","d","s","/","S","t","a","t",".php">>,
      <<"t","e","m","p","l","a","t","e","s","/","a","p","p","/","c","o","m","p","o","n","e","n","t","s","/","C","a","r","d","s","/","S","t","a","t",".html.twig">> }

FilePool == { r \o <<"/">> \o f : r \in {sW1, sW2}, f \in RelativeFilePool }

TagNamespacePool == { sCards, Ns(<<sWidget, sCards>>), Ns(<<sApp, sCards>>) }
TagComponentPool == { sStat }

\* the existence checks that can fail during a call: none, or the check of one path
ProbeErrorPool ==
    { {},
      { sW1 \o <<"/">> \o <<"s","r","c","/","T","w","i","g","/","C","o","m","p","o","n","e","n","t","/","C","a","r","d","s","/","S","t","a","t",".php">> },
      { sW1 \o <<"/">> \o <<"t","e","m","p","l","a","t","e","s","/","c","o","m","p","o","n","e","n","t","s","/","C","a","r","d","s","/","S","t","a","t",".html.twig">> } }

Init ==
    /\ excludedDirectoryNames = DefaultExcludedDirectoryNames
    /\ pathOptions = DefaultPathOptions
    /\ MatchIdle
    /\ ExpandIdle
    /\ FindIdle
    /\ SettingsIdle
    /\ GateIdle
    /\ NavIdle
    /\ BaseIdle
    /\ FormatIdle
    /\ ExtIdle
    /\ CacheIdle

\* the user edits the settings between two requests
ChangeConfiguration ==
    /\ findPc = "idle"
    /\ \E c \in ConfigPool :
          /\ c # <<excludedDirectoryNames, pathOptions>>
          /\ excludedDirectoryNames' = c[1]
          /\ pathOptions' = c[2]
    /\ UNCHANGED <<matchVars, expandVars, findVars, settingsVars, gateVars, navVars, baseVars, formatVars, extVars, cacheVars>>

\* folders are added to or removed from the workspace
ChangeWorkspaceFolders ==
    /\ findPc = "idle"
    /\ \E w \in WorkspacePool : w # workspaceFolders /\ workspaceFolders' = w
    /\ UNCHANGED <<configVars, matchVars, expandVars, files, callVars, settingsVars, gateVars, navVars, baseVars, formatVars, extVars, cacheVars>>

CreateFile ==
    /\ findPc = "idle"
    /\ Cardinality(files) < MaxFiles
    /\ \E f \in FilePool \ files : files' = files \cup {f}
    /\ UNCHANGED <<configVars, matchVars, expandVars, workspaceFolders, callVars, settingsVars, gateVars, navVars, baseVars, formatVars, extVars, cacheVars>>

DeleteFile ==
    /\ findPc = "idle"
    /\ \E f \in files : files' = files \ {f}
    /\ UNCHANGED <<configVars, matchVars, expandVars, workspaceFolders, callVars, settingsVars, gateVars, navVars, baseVars, formatVars, extVars, cacheVars>>

\* a facade that reports nothing as soon as no template file was found
FindResult_NoneWithoutTwig(ns, name, phpFiles, twigFiles) ==
    IF Len(twigFiles) = 0
    THEN Null
    ELSE Some([ fullNamespace |-> ns, componentName |-> name,
                phpFiles |-> phpFiles, twigFiles |-> twigFiles ])

\* lines 387-400: undefined when nothing was found, the result object otherwise
FindResult(ns, name, phpFiles, twigFiles) ==
    IF Len(phpFiles) = 0 /\ Len(twigFiles) = 0
    THEN Null
    ELSE Some([ fullNamespace |-> ns, componentName |-> name,
                phpFiles |-> phpFiles, twigFiles |-> twigFiles ])

\* one call of findComponentFiles(document, position).  The function has no await:
\* it runs from line 121 to its return in one step.  Only the outcome of
\* lines 121-153 is an input here: the namespace and component name of the tag the
\* regular expression finds on the line, and whether the cursor is on them.
FindComponentFiles ==
    /\ findPc = "idle"
    /\ \E ns \in TagNamespacePool, name \in TagComponentPool, onTag \in BOOLEAN,
          failing \in ProbeErrorPool :
        LET hasFolders == workspaceFolders # Null
            disk == Disk(files, failing)
            roots == IF hasFolders THEN workspaceFolders[1] ELSE <<>>
            \* lines 126-129, 146-149: no tag under the cursor; 173-177: no folder
            proceeds == onTag /\ hasFolders
        IN /\ tag' = [fullNamespace |-> ns, componentName |-> name, cursorOnTag |-> onTag]
           \* lines 158-167
           /\ matchResults' =
                IF onTag
                THEN [ php |-> parseComponentNamespace(ns, pathOptions.phpBasePaths,
                                                       excludedDirectoryNames),
                       twig |-> parseComponentNamespace(ns, pathOptions.twigBasePaths,
                                                        excludedDirectoryNames) ]
                ELSE NotRead
           \* lines 179-299
           /\ phpPossiblePaths' =
                IF proceeds
                THEN PhpPossiblePaths(pathOptions, matchResults'.php, matchResults'.twig,
                                      ns, name)
                ELSE <<>>
           /\ twigPossiblePaths' =
                IF proceeds
                THEN TwigPossiblePaths(pathOptions, matchResults'.php, matchResults'.twig,
                                       ns, name)
                ELSE <<>>
           \* lines 303-329
           /\ probeErrors' = IF proceeds THEN failing ELSE {}
           /\ primaryProbes' = PrimaryProbes(roots, phpPossiblePaths', twigPossiblePaths')
           /\ primaryPhpFiles' = FindExisting(disk, roots, phpPossiblePaths')
           /\ primaryTwigFiles' = FindExisting(disk, roots, twigPossiblePaths')
           \* lines 331-385
           /\ fallbackProbes' =
                IF proceeds /\ AggressiveApplies(primaryPhpFiles', primaryTwigFiles')
                THEN AggressiveProbes(disk, roots, pathOptions, ns, name)
                ELSE <<>>
           /\ foundPhpFiles' = primaryPhpFiles'
           /\ foundTwigFiles' = primaryTwigFiles' \o AggressiveFound(disk, fallbackProbes')
           \* lines 158, 17 (twice) and 336
           /\ configReads' =
                IF onTag
                THEN ConfigReads(proceeds /\ AggressiveApplies(primaryPhpFiles', primaryTwigFiles'))
                ELSE <<>>
           \* lines 387-400
           /\ findReturn' = FindResult(ns, name, foundPhpFiles', foundTwigFiles')
    /\ findPc' = "done"
    /\ UNCHANGED <<configVars, matchVars, expandVars, diskVars, settingsVars, gateVars, navVars, baseVars, formatVars, extVars, cacheVars>>

\* the caller (navigation, definition provider) is done with the result
FindReturn ==
    /\ findPc = "done"
    /\ tag' = NotRead
    /\ matchResults' = NotRead
    /\ phpPossiblePaths' = <<>>
    /\ twigPossiblePaths' = <<>>
    /\ primaryPhpFiles' = <<>>
    /\ primaryTwigFiles' = <<>>
    /\ fallbackProbes' = <<>>
    /\ foundPhpFiles' = <<>>
    /\ foundTwigFiles' = <<>>
    /\ findReturn' = Null
    /\ findPc' = "idle"
    /\ configReads' = <<>>
    /\ primaryProbes' = <<>>
    /\ probeErrors' = {}
    /\ UNCHANGED <<configVars, matchVars, expandVars, diskVars, settingsVars, gateVars, navVars, baseVars, formatVars, extVars, cacheVars>>

Next ==
    \/ ChangeConfiguration
    \/ ChangeWorkspaceFolders
    \/ CreateFile
    \/ DeleteFile
    \/ FindComponentFiles
    \/ FindReturn

Spec == Init /\ [][Next]_vars

----------------------------------------------------------------------------
(* Navigation: navigateToTwigComponent and TwigComponentDefinitionProvider,
   src/commands/navigation.ts with the definition provider of its later version *)

sOpenComponent == "Open Component File"
sOpenTemplate == "Open Template File"
sOpenBoth == "Open Both Files"

\* lines 20-45: the items of the quick pick
QuickPickItems(phpFiles, twigFiles) ==
    (IF Len(phpFiles) > 0 THEN {sOpenComponent} ELSE {})
    \cup (IF Len(twigFiles) > 0 THEN {sOpenTemplate} ELSE {})
    \cup (IF Len(phpFiles) > 0 /\ Len(twigFiles) > 0 THEN {sOpenBoth} ELSE {})

\* lines 10-89 of navigateToTwigComponent: the quick pick it shows (null for none)
\* and the files it opens at once
Navigate(result, isModifierClick) ==
    IF result = Null THEN [show |-> Null, open |-> <<>>]
    ELSE LET phpFiles == result[1].phpFiles
             twigFiles == result[1].twigFiles
         IN IF isModifierClick \/ (Len(phpFiles) > 0 /\ Len(twigFiles) > 0)
            THEN [show |-> Some(QuickPickItems(phpFiles, twigFiles)), open |-> <<>>]
            ELSE [show |-> Null,
                  open |-> IF Len(phpFiles) > 0 THEN <<phpFiles[1]>>
                           ELSE IF Len(twigFiles) > 0 THEN <<twigFiles[1]>>
                           ELSE <<>>]

\* lines 53-79, the onDidAccept handler: the files opened for the selected item
OnDidAccept(result, label) ==
    LET phpFiles == result[1].phpFiles
        twigFiles == result[1].twigFiles
    IN IF label = sOpenComponent /\ Len(phpFiles) > 0 THEN <<phpFiles[1]>>
       ELSE IF label = sOpenTemplate /\ Len(twigFiles) > 0 THEN <<twigFiles[1]>>
       ELSE IF label = sOpenBoth
       THEN (IF Len(twigFiles) > 0 THEN <<twigFiles[1]>> ELSE <<>>)
            \o (IF Len(phpFiles) > 0 THEN <<phpFiles[1]>> ELSE <<>>)
       ELSE <<>>

\* provideDefinition, lines 119-125: the location handed back to the editor
DefinitionLocation(result) ==
    IF result = Null THEN Null
    ELSE IF Len(result[1].phpFiles) > 0 THEN Some(result[1].phpFiles[1])
    ELSE IF Len(result[1].twigFiles) > 0 THEN Some(result[1].twigFiles[1])
    ELSE Null

\* what findComponentFiles can hand to its callers: undefined, or lists of which
\* one at least is not empty
PhpFoundPool == { <<>>, <<"/w1/src/Stat.php">>, <<"/w1/src/Stat.php", "/w2/src/Stat.php">> }
TwigFoundPool == { <<>>, <<"/w1/templates/Stat.html.twig">>,
                   <<"/w1/templates/Stat.html.twig", "/w2/templates/Stat.html.twig">> }
NavResultPool ==
    { Null }
    \cup { Some([ fullNamespace |-> sCards, componentName |-> sStat,
                  phpFiles |-> pt[1], twigFiles |-> pt[2] ]) :
             pt \in { x \in PhpFoundPool \X TwigFoundPool : x[1] # <<>> \/ x[2] # <<>> } }

InitNav ==
    /\ excludedDirectoryNames = DefaultExcludedDirectoryNames
    /\ pathOptions = NotRead
    /\ MatchIdle
    /\ ExpandIdle
    /\ FindIdle
    /\ SettingsIdle
    /\ GateIdle
    /\ NavIdle
    /\ BaseIdle
    /\ FormatIdle
    /\ ExtIdle
    /\ CacheIdle

\* the navigation commands: navigateToComponent (no modifier) and
\* modifierNavigateToComponent
NavigateCommand ==
    /\ navRequest = NotRead
    /\ \E result \in NavResultPool, isModifierClick \in BOOLEAN :
          /\ navRequest' = [ via |-> IF isModifierClick THEN "modifierCommand" ELSE "command",
                             click |-> TRUE, result |-> result ]
          /\ quickPick' = Navigate(result, isModifierClick).show
          /\ quickPickShown' = (Navigate(result, isModifierClick).show # Null)
          /\ opened' = Navigate(result, isModifierClick).open
          /\ activeIsSource' = (Navigate(result, isModifierClick).open = <<>>)
    /\ UNCHANGED <<accepted, timer, definition>>
    /\ UNCHANGED <<configVars, matchVars, expandVars, findVars, settingsVars, gateVars, baseVars, formatVars, extVars, cacheVars>>

\* the editor asks for the definition at a position: for a click (go to
\* definition), or for a hover with the modifier held (preview)
ProvideDefinition ==
    /\ navRequest = NotRead
    /\ \E result \in NavResultPool, click \in BOOLEAN :
          /\ navRequest' = [ via |-> "definition", click |-> click, result |-> result ]
          \* lines 109-115
          /\ timer' = (result # Null)
          \* lines 119-125; the editor follows the location of a click only
          /\ definition' = IF click THEN DefinitionLocation(result) ELSE Null
    /\ UNCHANGED <<quickPick, quickPickShown, accepted, opened, activeIsSource>>
    /\ UNCHANGED <<configVars, matchVars, expandVars, findVars, settingsVars, gateVars, baseVars, formatVars, extVars, cacheVars>>

\* the editor opens the location provideDefinition returned
EditorFollowsDefinition ==
    /\ definition # Null
    /\ opened' = Append(opened, definition[1])
    /\ activeIsSource' = FALSE
    /\ definition' = Null
    /\ UNCHANGED <<navRequest, quickPick, quickPickShown, accepted, timer>>
    /\ UNCHANGED <<configVars, matchVars, expandVars, findVars, settingsVars, gateVars, baseVars, formatVars, extVars, cacheVars>>

\* the callback of lines 109-115 runs: navigateToTwigComponent(editor, true) when
\* the active editor still shows the document; findComponentFiles is called again
\* for the cursor, which is on the tag or not
TimerFires ==
    /\ timer
    /\ timer' = FALSE
    /\ IF activeIsSource
       THEN \E again \in {Null, navRequest.result} :
               /\ quickPick' = IF Navigate(again, TRUE).show # Null
                                THEN Navigate(again, TRUE).show ELSE quickPick
               /\ quickPickShown' = (quickPickShown \/ Navigate(again, TRUE).show # Null)
       ELSE UNCHANGED <<quickPick, quickPickShown>>
    /\ UNCHANGED <<navRequest, accepted, opened, definition, activeIsSource>>
    /\ UNCHANGED <<configVars, matchVars, expandVars, findVars, settingsVars, gateVars, baseVars, formatVars, extVars, cacheVars>>

\* the user accepts an item of the quick pick, or accepts with nothing selected
AcceptQuickPick ==
    /\ quickPick # Null
    /\ \E label \in quickPick[1] \cup {"none"} :
          /\ accepted' = (accepted \/ label # "none")
          /\ opened' = opened \o OnDidAccept(navRequest.result, label)
          /\ activeIsSource' = (activeIsSource /\ OnDidAccept(navRequest.result, label) = <<>>)
    /\ quickPick' = Null
    /\ UNCHANGED <<navRequest, quickPickShown, timer, definition>>
    /\ UNCHANGED <<configVars, matchVars, expandVars, findVars, settingsVars, gateVars, baseVars, formatVars, extVars, cacheVars>>

\* the user closes the quick pick without accepting
DismissQuickPick ==
    /\ quickPick # Null
    /\ quickPick' = Null
    /\ UNCHANGED <<navRequest, quickPickShown, accepted, opened, timer, definition,
                   activeIsSource>>
    /\ UNCHANGED <<configVars, matchVars, expandVars, findVars, settingsVars, gateVars, baseVars, formatVars, extVars, cacheVars>>

\* nothing of the navigation is pending any more; the user returns to the document
NavigationEnds ==
    /\ navRequest # NotRead
    /\ quickPick = Null
    /\ ~timer
    /\ definition = Null
    /\ navRequest' = NotRead
    /\ quickPickShown' = FALSE
    /\ accepted' = FALSE
    /\ opened' = <<>>
    /\ activeIsSource' = TRUE
    /\ UNCHANGED <<quickPick, timer, definition>>
    /\ UNCHANGED <<configVars, matchVars, expandVars, findVars, settingsVars, gateVars, baseVars, formatVars, extVars, cacheVars>>

NextNav ==
    \/ NavigateCommand
    \/ ProvideDefinition
    \/ EditorFollowsDefinition
    \/ TimerFires
    \/ AcceptQuickPick
    \/ DismissQuickPick
    \/ NavigationEnds

SpecNav == InitNav /\ [][NextNav]_vars

----------------------------------------------------------------------------
(* findMatchingBasePath, unnamed/part_002:62-117 *)

\* String.prototype.slice(start) for a start that is not negative
slice(s, start) == SubSeq(s, start + 1, Len(s))

\* line 73: the parts of the base path that are not excluded names; empty parts
\* stay
FilteredBasePathParts(basePath, excluded) ==
    SelectSeq(split(basePath, "/"), LAMBDA part : ~ArrIncludes(excluded, toLowerCase(part)))

\* line 74
FilteredBasePath(basePath, excluded) == join(FilteredBasePathParts(basePath, excluded), ":")

\* line 76
CharactersToRemove(basePath, excluded) ==
    IF Len(FilteredBasePathParts(basePath, excluded)) = 1
    THEN Len(FilteredBasePath(basePath, excluded)) + 1
    ELSE Len(FilteredBasePath(basePath, excluded))

FoundBase(basePath, rest) == [foundBasePath |-> Some(basePath), remainingNamespace |-> rest]
NoBase(ref) == [foundBasePath |-> Null, remainingNamespace |-> ref]

\* lines 62-117: the first base path whose filtered form the reference starts with
RECURSIVE BaseLoop(_, _, _, _)
BaseLoop(ref, paths, excluded, i) ==
    IF i > Len(paths) THEN NoBase(ref)
    ELSE IF startsWith(ref, FilteredBasePath(paths[i], excluded))
         THEN FoundBase(paths[i], slice(ref, CharactersToRemove(paths[i], excluded)))
    ELSE BaseLoop(ref, paths, excluded, i + 1)

findMatchingBasePath(ref, paths, excluded) == BaseLoop(ref, paths, excluded, 1)

\* component references as the caller extracts them from a tag: namespace
\* segments and the component name, joined by ':'
ComponentPathPool ==
    { sApp, sMenu, Ns(<<sApp, sMenu>>), Ns(<<sApps, sMenu>>), Ns(<<sApp, sMenu, sItem>>),
      Ns(<<sMenu, sApp>>), Ns(<<sSrc, sApp, sMenu>>) }

InitBase ==
    /\ excludedDirectoryNames = DefaultExcludedDirectoryNames
    /\ pathOptions = NotRead
    /\ MatchIdle
    /\ ExpandIdle
    /\ FindIdle
    /\ SettingsIdle
    /\ GateIdle
    /\ NavIdle
    /\ BaseIdle
    /\ FormatIdle
    /\ ExtIdle
    /\ CacheIdle

\* the user edits the excluded directory names between two calls
SetExcludedForBase ==
    /\ basePc = "idle"
    /\ \E ex \in ExcludedPool :
          /\ ex # excludedDirectoryNames
          /\ excludedDirectoryNames' = ex
    /\ UNCHANGED <<pathOptions, matchVars, expandVars, findVars, settingsVars, gateVars,
                   navVars, baseVars, formatVars, extVars, cacheVars>>

\* one call of findMatchingBasePath(fullComponentPath, basePaths, excludedDirectoryNames)
FindMatchingBasePathCall ==
    /\ basePc = "idle"
    /\ \E ref \in ComponentPathPool, paths \in SeqsUpTo(BasePathPool, MaxBasePaths) :
          /\ fullComponentPath' = ref
          /\ candidateBasePaths' = paths
          /\ baseMatch' = Some(findMatchingBasePath(ref, paths, excludedDirectoryNames))
    /\ basePc' = "done"
    /\ UNCHANGED <<configVars, matchVars, expandVars, findVars, settingsVars, gateVars,
                   navVars, formatVars, extVars, cacheVars>>

\* the caller drops the result
FindMatchingBasePathReturn ==
    /\ basePc = "done"
    /\ fullComponentPath' = Empty
    /\ candidateBasePaths' = <<>>
    /\ baseMatch' = Null
    /\ basePc' = "idle"
    /\ UNCHANGED <<configVars, matchVars, expandVars, findVars, settingsVars, gateVars,
                   navVars, formatVars, extVars, cacheVars>>

NextBase == SetExcludedForBase \/ FindMatchingBasePathCall \/ FindMatchingBasePathReturn

SpecBase == InitBase /\ [][NextBase]_vars

----------------------------------------------------------------------------
(* TwigComponentFormattingProvider, unnamed/part_007 *)

sNewline == "\n"
sQuote == "\""
sApostrophe == "'"

\* [a-zA-Z0-9_-]
AttributeNameChars == NameChars \cup {"-"}

\* TWIG_COMPONENT_REGEX (src/utils/constants.ts:2) matches at position i (1-based):
\* "<twig:", a run of name characters, ':', a run of name characters
ComponentMatchesAt(line, i) ==
    /\ i + 5 <= Len(line)
    /\ SubSeq(line, i, i + 5) = sTwigOpen
    /\ RunEnd(line, i + 6, NameChars) >= i + 6
    /\ RunEnd(line, i + 6, NameChars) + 1 <= Len(line)
    /\ line[RunEnd(line, i + 6, NameChars) + 1] = ":"
    /\ RunEnd(line, RunEnd(line, i + 6, NameChars) + 2, NameChars)
          >= RunEnd(line, i + 6, NameChars) + 2

\* the match at position i; index is 0-based, length is match[0].length
ComponentMatchAt(line, i) ==
    LET e1 == RunEnd(line, i + 6, NameChars)
        e2 == RunEnd(line, e1 + 2, NameChars)
    IN [ index |-> i - 1,
         namespace |-> SubSeq(line, i + 6, e1),
         component |-> SubSeq(line, e1 + 2, e2),
         length |-> e2 - i + 1 ]

\* the matches of successive componentRegex.exec(line) calls, from position from
RECURSIVE ComponentMatches(_, _)
ComponentMatches(line, from) ==
    LET starts == { i \in from..Len(line) : ComponentMatchesAt(line, i) }
    IN IF starts = {} THEN <<>>
       ELSE LET i == CHOOSE x \in starts : \A y \in starts : x <= y
            IN <<ComponentMatchAt(line, i)>>
               \o ComponentMatches(line, i + ComponentMatchAt(line, i).length)

\* the position of the last character of the attribute value that starts at
\* position v, or 0: "...", '...' or {{...}}
ValueEnd(text, v) ==
    IF v > Len(text) THEN 0
    ELSE IF text[v] = sQuote \/ text[v] = sApostrophe
         THEN indexFrom(text, <<text[v]>>, v + 1)
    ELSE IF v + 1 <= Len(text) /\ text[v] = "{" /\ text[v + 1] = "{"
         THEN LET c == indexFrom(text, <<"}">>, v + 2)
              IN IF c > 0 /\ c + 1 <= Len(text) /\ text[c + 1] = "}" THEN c + 1 ELSE 0
    ELSE 0

\* TWIG_ATTRIBUTE_REGEX (src/utils/constants.ts:6) matches at position i: the
\* position of the last character of the match, or 0
AttributeEnd(text, i) ==
    LET e == RunEnd(text, i, AttributeNameChars)
    IN IF e >= i /\ e + 1 <= Len(text) /\ text[e + 1] = "="
       THEN ValueEnd(text, e + 2)
       ELSE 0

\* String.prototype.trim for blanks
RECURSIVE trim(_)
trim(s) ==
    IF s = Empty THEN s
    ELSE IF s[1] = " " THEN trim(Tail(s))
    ELSE IF s[Len(s)] = " " THEN trim(SubSeq(s, 1, Len(s) - 1))
    ELSE s

\* lines 80-85: the matches of successive attributeRegex.exec(text) calls, trimmed
RECURSIVE Attributes(_, _)
Attributes(text, from) ==
    LET starts == { i \in from..Len(text) : AttributeEnd(text, i) > 0 }
    IN IF starts = {} THEN <<>>
       ELSE LET i == CHOOSE x \in starts : \A y \in starts : x <= y
            IN <<trim(SubSeq(text, i, AttributeEnd(text, i)))>>
               \o Attributes(text, AttributeEnd(text, i) + 1)

\* TextLine.firstNonWhitespaceCharacterIndex
RECURSIVE FirstNonWhitespaceCharacterIndex(_)
FirstNonWhitespaceCharacterIndex(line) ==
    IF line = Empty \/ line[1] # " " THEN 0
    ELSE 1 + FirstNonWhitespaceCharacterIndex(Tail(line))

\* String.prototype.endsWith
endsWith(s, suffix) ==
    Len(suffix) <= Len(s) /\ SubSeq(s, Len(s) - Len(suffix) + 1, Len(s)) = suffix

\* a tag record of lines 89-97 and 127-133; endLine and endChar are Null while
\* they are undefined
Tag(namespace, component, startLine, startChar, endLine, endChar, attributes) ==
    [ namespace |-> namespace, component |-> component, startLine |-> startLine,
      startChar |-> startChar, endLine |-> endLine, endChar |-> endChar,
      attributes |-> attributes ]

\* lines 226-228: the lines strictly between line from and line to, each after
\* a newline
RECURSIVE MiddleLines(_, _, _)
MiddleLines(doc, from, to) ==
    IF from >= to THEN Empty
    ELSE <<sNewline>> \o doc[from + 1] \o MiddleLines(doc, from + 1, to)

\* lines 216-232: the text of the document from the tag's start to its end
FullTagText(doc, t) ==
    IF t.startLine = t.endLine[1]
    THEN SubSeq(doc[t.startLine + 1], t.startChar + 1, t.endChar[1])
    ELSE substring(doc[t.startLine + 1], t.startChar)
         \o MiddleLines(doc, t.startLine + 1, t.endLine[1])
         \o <<sNewline>> \o SubSeq(doc[t.endLine[1] + 1], 1, t.endChar[1])

\* line 242
TagStart(t) == sTwigOpen \o t.namespace \o <<":">> \o t.component

\* a < b of JavaScript for a number a and a number or undefined b
LessThan(a, b) == b # Null /\ a < b[1]

RECURSIVE SumLengths(_)
SumLengths(attributes) ==
    IF attributes = <<>> THEN 0
    ELSE Len(attributes[1]) + 1 + SumLengths(Tail(attributes))

\* lines 248-250
ShouldUseSingleLine(t, isSelfClosing, config) ==
    \/ LessThan(Len(t.attributes), config.minAttributesMultiline)
    \/ LessThan(Len(TagStart(t)) + SumLengths(t.attributes)
                   + (IF isSelfClosing THEN 3 ELSE 1),
                config.maxLineLength)

\* lines 254-266
RECURSIVE SingleLineText(_, _)
SingleLineText(attributes, isSelfClosing) ==
    IF attributes = <<>> THEN (IF isSelfClosing THEN <<" ", "/", ">">> ELSE <<">">>)
    ELSE <<" ">> \o attributes[1] \o SingleLineText(Tail(attributes), isSelfClosing)

\* lines 269-281
RECURSIVE MultiLineText(_, _, _)
MultiLineText(attributes, leadingWhitespace, isSelfClosing) ==
    IF attributes = <<>>
    THEN <<sNewline>> \o leadingWhitespace
         \o (IF isSelfClosing THEN <<"/", ">">> ELSE <<">">>)
    ELSE <<sNewline>> \o leadingWhitespace \o <<" ", " ", " ", " ">> \o attributes[1]
         \o MultiLineText(Tail(attributes), leadingWhitespace, isSelfClosing)

TextEdit(startLine, startChar, endLine, endChar, newText) ==
    [ range |-> [ startLine |-> startLine, startChar |-> startChar,
                  endLine |-> endLine, endChar |-> endChar ],
      newText |-> newText ]

\* line 208: !tag.endLine || !tag.endChar, where 0 is falsy as undefined is
IsUnfinished(t) ==
    \/ t.endLine = Null \/ t.endLine = Some(0)
    \/ t.endChar = Null \/ t.endChar = Some(0)

\* lines 194-291: the edits formatTag pushes for the tag: none or one
formatTag(doc, t, config) ==
    IF IsUnfinished(t) THEN <<>>
    ELSE LET startLine == doc[t.startLine + 1]
             leadingWhitespace ==
                 SubSeq(startLine, 1, FirstNonWhitespaceCharacterIndex(startLine))
             isSelfClosing == endsWith(trim(FullTagText(doc, t)), <<"/", ">">>)
             formattedText ==
                 IF ShouldUseSingleLine(t, isSelfClosing, config)
                    /\ config.formattingStyle # sMultiline
                 THEN TagStart(t) \o SingleLineText(t.attributes, isSelfClosing)
                 ELSE TagStart(t)
                      \o MultiLineText(t.attributes, leadingWhitespace, isSelfClosing)
         IN << TextEdit(t.startLine, t.startChar, t.endLine[1], t.endChar[1],
                        formattedText) >>

\* lines 64-101: the edits of the first pass for one match on line i of the text
FlattenedEdits(doc, line, i, rangeStart, match, config) ==
    LET tagEndIndex == LineIndexOf(line, <<">">>, match.index + match.length)
        tagText == SubSeq(line, match.index + 1, tagEndIndex + 1)
        attributes == Attributes(tagText, 1)
    IN IF tagEndIndex = -1 \/ Len(attributes) = 0 THEN <<>>
       ELSE formatTag(doc,
                      Tag(match.namespace, match.component, i + rangeStart, match.index,
                          Some(i + rangeStart), Some(tagEndIndex + 1), attributes),
                      config)

\* lines 64-101: the while loop over the matches of one line
RECURSIVE EditsOfMatches(_, _, _, _, _, _)
EditsOfMatches(doc, line, i, rangeStart, matches, config) ==
    IF matches = <<>> THEN <<>>
    ELSE FlattenedEdits(doc, line, i, rangeStart, matches[1], config)
         \o EditsOfMatches(doc, line, i, rangeStart, Tail(matches), config)

\* lines 56-102: the first pass from line i of the text (0-based)
RECURSIVE FirstPass(_, _, _, _, _)
FirstPass(doc, lines, i, rangeStart, config) ==
    IF i >= Len(lines) THEN <<>>
    ELSE EditsOfMatches(doc, lines[i + 1], i, rangeStart,
                        ComponentMatches(lines[i + 1], 1), config)
         \o FirstPass(doc, lines, i + 1, rangeStart, config)

\* lines 135-156: a tag found by the second pass that ends on its own line
ClosedOnLine(doc, line, i, rangeStart, match, config) ==
    LET tagEndIndex == LineIndexOf(line, <<">">>, match.index + match.length)
        tagText == SubSeq(line, match.index + 1, tagEndIndex + 1)
        attributes == Attributes(tagText, 1)
    IN IF Len(attributes) = 0 THEN <<>>
       ELSE formatTag(doc,
                      Tag(match.namespace, match.component, i + rangeStart, match.index,
                          Some(i + rangeStart), Some(tagEndIndex + 1), attributes),
                      config)

\* lines 116-189: the second pass from line i of the text (0-based) with the tag
\* being tracked (Null: none)
RECURSIVE SecondPass(_, _, _, _, _, _)
SecondPass(doc, lines, i, rangeStart, currentTag, config) ==
    IF i >= Len(lines) THEN <<>>
    ELSE LET line == lines[i + 1]
             found == ComponentMatches(line, 1)
         IN IF currentTag = Null
            THEN IF found = <<>>
                 THEN SecondPass(doc, lines, i + 1, rangeStart, Null, config)
                 ELSE IF LineIndexOf(line, <<">">>, found[1].index + found[1].length) # -1
                 THEN ClosedOnLine(doc, line, i, rangeStart, found[1], config)
                      \o SecondPass(doc, lines, i + 1, rangeStart, Null, config)
                 ELSE SecondPass(doc, lines, i + 1, rangeStart,
                                 Some(Tag(found[1].namespace, found[1].component,
                                          i + rangeStart, found[1].index, Null, Null, <<>>)),
                                 config)
            ELSE LET tagEndIndex == LineIndexOf(line, <<">">>, 0)
                     collected == currentTag[1].attributes \o Attributes(line, 1)
                 IN IF tagEndIndex # -1
                    THEN (IF Len(collected) > 0
                          THEN formatTag(doc,
                                         [currentTag[1] EXCEPT
                                            !.endLine = Some(i + rangeStart),
                                            !.endChar = Some(tagEndIndex + 1),
                                            !.attributes = collected],
                                         config)
                          ELSE <<>>)
                         \o SecondPass(doc, lines, i + 1, rangeStart, Null, config)
                    ELSE SecondPass(doc, lines, i + 1, rangeStart,
                                    Some([currentTag[1] EXCEPT !.attributes = collected]),
                                    config)

\* lines 43-192 for a range of whole lines: document.getText(range).split('\n')
\* is the lines of the range
formatTwigComponents(doc, range, config) ==
    LET lines == SubSeq(doc, range.startLine + 1, range.endLine + 1)
    IN FirstPass(doc, lines, 0, range.startLine, config)
       \o SecondPass(doc, lines, 0, range.startLine, Null, config)

----------------------------------------------------------------------------
(* The formatter against documents: SpecFormat *)

sPlainLine == <<"x">>
sFlattenedLine == <<"<", "t", "w", "i", "g", ":", "A", ":", "B", " ", "a", "=", "\"", "1", "\"", " ", "b", "=", "'", "2", "'", " ", "/", ">">>
sNamespacedLine == <<" ", "<", "t", "w", "i", "g", ":", "A", ":", "B", ":", "C", " ", "a", "=", "\"", "1", "\"", " ", "b", "=", "{", "{", "x", "}", "}", ">">>
sValuelessLine == <<"<", "t", "w", "i", "g", ":", "A", ":", "B", " ", "a", "=", "\"", "1", "\"", " ", "c", " ", "/", ">">>
sOpeningLine == <<" ", "<", "t", "w", "i", "g", ":", "A", ":", "B", " ", "a", "=", "\"", "1", "\"">>
sClosingLine == <<" ", "b", "=", "'", "2", "'", " ", "/", ">">>
sTwoTagsLine == <<"<", "t", "w", "i", "g", ":", "A", ":", "B", " ", "a", "=", "\"", "1", "\"", ">", "<", "t", "w", "i", "g", ":", "C", ":", "D", " ", "b", "=", "'", "2", "'", ">">>
sBareLine == <<"<", "t", "w", "i", "g", ":", "A", ":", "B", ">">>

DocumentLinePool ==
    { sPlainLine, sFlattenedLine, sNamespacedLine, sValuelessLine, sOpeningLine,
      sClosingLine, sTwoTagsLine, sBareLine }

\* DEFAULT_VALUES, unnamed/part_004:51-54
DefaultMaxLineLength == 120
DefaultMinAttributesMultiline == 2

FormattingConfigPool ==
    { DefaultFormattingConfig,
      FormattingConfig(sSingleLine, Null, Null),
      FormattingConfig(sSingleLine, Some(DefaultMinAttributesMultiline),
                       Some(DefaultMaxLineLength)) }

InitFormat ==
    /\ excludedDirectoryNames = DefaultExcludedDirectoryNames
    /\ pathOptions = NotRead
    /\ MatchIdle
    /\ ExpandIdle
    /\ FindIdle
    /\ SettingsIdle
    /\ GateIdle
    /\ NavIdle
    /\ BaseIdle
    /\ FormatIdle
    /\ ExtIdle
    /\ CacheIdle

\* the user opens or edits a Twig document
EditDocument ==
    /\ formatPc = "idle"
    /\ \E doc \in SeqsUpTo(DocumentLinePool, MaxLines) :
          /\ doc # <<>>
          /\ doc # document
          /\ document' = doc
    /\ UNCHANGED <<formatConfig, formatRange, edits, formatPc>>
    /\ UNCHANGED <<configVars, matchVars, expandVars, findVars, settingsVars, gateVars,
                   navVars, baseVars, extVars, cacheVars>>

\* the user changes the formatting settings
ChangeFormattingConfig ==
    /\ formatPc = "idle"
    /\ \E config \in FormattingConfigPool :
          /\ config # formatConfig
          /\ formatConfig' = config
    /\ UNCHANGED <<document, formatRange, edits, formatPc>>
    /\ UNCHANGED <<configVars, matchVars, expandVars, findVars, settingsVars, gateVars,
                   navVars, baseVars, extVars, cacheVars>>

\* provideDocumentFormattingEdits (lines 7-25) and the format command
\* (commands/formatting.ts:22-34): the range is the whole document
FormatDocument ==
    /\ formatPc = "idle"
    /\ document # <<>>
    /\ formatRange' = Some([startLine |-> 0, endLine |-> Len(document) - 1])
    /\ edits' = Some(formatTwigComponents(document,
                        [startLine |-> 0, endLine |-> Len(document) - 1], formatConfig))
    /\ formatPc' = "done"
    /\ UNCHANGED <<document, formatConfig>>
    /\ UNCHANGED <<configVars, matchVars, expandVars, findVars, settingsVars, gateVars,
                   navVars, baseVars, extVars, cacheVars>>

\* provideDocumentRangeFormattingEdits (lines 27-41) for a selection of whole
\* lines that is not the whole document
FormatRange ==
    /\ formatPc = "idle"
    /\ \E first \in 0..(Len(document) - 1) :
          \E last \in first..(Len(document) - 1) :
              /\ last - first + 1 < Len(document)
              /\ formatRange' = Some([startLine |-> first, endLine |-> last])
              /\ edits' = Some(formatTwigComponents(document,
                                  [startLine |-> first, endLine |-> last], formatConfig))
    /\ formatPc' = "done"
    /\ UNCHANGED <<document, formatConfig>>
    /\ UNCHANGED <<configVars, matchVars, expandVars, findVars, settingsVars, gateVars,
                   navVars, baseVars, extVars, cacheVars>>

\* the editor has taken the edits
FormatReturn ==
    /\ formatPc = "done"
    /\ formatRange' = NotRead
    /\ edits' = Null
    /\ formatPc' = "idle"
    /\ UNCHANGED <<document, formatConfig>>
    /\ UNCHANGED <<configVars, matchVars, expandVars, findVars, settingsVars, gateVars,
                   navVars, baseVars, extVars, cacheVars>>

NextFormat ==
    \/ EditDocument
    \/ ChangeFormattingConfig
    \/ FormatDocument
    \/ FormatRange
    \/ FormatReturn

SpecFormat == InitFormat /\ [][NextFormat]_vars

----------------------------------------------------------------------------
(* activate, src/extension.ts:19-61 *)

sNavigateCommand == "symfony-ux-twig-component.navigateToComponent"
sFormatCommand == "symfony-ux-twig-component.formatTwigComponents"
sFormattingProvider == "DocumentFormattingEditProvider"
sRangeFormattingProvider == "DocumentRangeFormattingEditProvider"
sConfigListener == "onDidChangeConfiguration"

\* a Disposable VS Code hands out for a registration
Registration(kind) == [kind |-> kind, live |-> TRUE]

\* registerFormattingProviders, unnamed/part_007:295-318
registerFormattingProviders(s) ==
    IF s.enabled
    THEN <<Registration(sFormattingProvider), Registration(sRangeFormattingProvider)>>
    ELSE <<>>

\* registerFormattingCommands, src/commands/formatting.ts:55-66
registerFormattingCommands == <<Registration(sFormatCommand)>>

\* the indices of the registrations appended to a registry of length n
IndicesAfter(n, added) == [i \in 1..Len(added) |-> n + i]

\* Disposable.dispose() on every registration listed
DisposeAll(reg, listed) ==
    [i \in 1..Len(reg) |->
        IF \E k \in 1..Len(listed) : listed[k] = i
        THEN [reg[i] EXCEPT !.live = FALSE]
        ELSE reg[i]]

\* the configuration listener is still subscribed to the event
ListenerIsLive(reg) == \E i \in 1..Len(reg) : reg[i].kind = sConfigListener /\ reg[i].live

ExtSettingsPool ==
    [enabled : BOOLEAN, formattingStyle : {sMultiline, sSingleLine}, debug : BOOLEAN]

InitExt ==
    /\ excludedDirectoryNames = DefaultExcludedDirectoryNames
    /\ pathOptions = NotRead
    /\ MatchIdle
    /\ ExpandIdle
    /\ FindIdle
    /\ SettingsIdle
    /\ GateIdle
    /\ NavIdle
    /\ BaseIdle
    /\ FormatIdle
    /\ ExtIdle
    /\ CacheIdle

\* the user edits the settings before the extension is activated
ConfigureBeforeActivation ==
    /\ extState = "inactive"
    /\ \E s \in ExtSettingsPool :
          /\ s # extSettings
          /\ extSettings' = s
    /\ UNCHANGED <<registry, disposables, subscriptions, extState, configChanges>>
    /\ UNCHANGED <<configVars, matchVars, expandVars, findVars, settingsVars, gateVars,
                   navVars, baseVars, formatVars, cacheVars>>

\* lines 19-61: activate registers the navigation command, the formatting
\* providers and commands and the configuration listener, and hands the whole
\* array to context.subscriptions
Activate ==
    /\ extState = "inactive"
    /\ LET registered ==
               <<Registration(sNavigateCommand)>>
               \o registerFormattingProviders(extSettings)
               \o registerFormattingCommands
               \o <<Registration(sConfigListener)>>
       IN /\ registry' = registered
          /\ disposables' = IndicesAfter(0, registered)
          /\ subscriptions' = IndicesAfter(0, registered)
    /\ extState' = "active"
    /\ UNCHANGED <<extSettings, configChanges>>
    /\ UNCHANGED <<configVars, matchVars, expandVars, findVars, settingsVars, gateVars,
                   navVars, baseVars, formatVars, cacheVars>>

\* lines 44-54, with config.ts:61-67: a change of the section's settings; the
\* callback runs if the listener is still subscribed
OnDidChangeConfiguration ==
    /\ extState = "active"
    /\ configChanges < MaxChanges
    /\ \E s \in ExtSettingsPool :
          /\ s # extSettings
          /\ extSettings' = s
          /\ IF ListenerIsLive(registry)
             THEN LET added == registerFormattingProviders(s) \o registerFormattingCommands
                  IN /\ registry' = DisposeAll(registry, disposables) \o added
                     /\ disposables' = IndicesAfter(Len(registry), added)
             ELSE UNCHANGED <<registry, disposables>>
    /\ configChanges' = configChanges + 1
    /\ UNCHANGED <<subscriptions, extState>>
    /\ UNCHANGED <<configVars, matchVars, expandVars, findVars, settingsVars, gateVars,
                   navVars, baseVars, formatVars, cacheVars>>

\* lines 64-66: deactivate does nothing itself; VS Code disposes
\* context.subscriptions
Deactivate ==
    /\ extState = "active"
    /\ registry' = DisposeAll(registry, subscriptions)
    /\ extState' = "deactivated"
    /\ UNCHANGED <<extSettings, disposables, subscriptions, configChanges>>
    /\ UNCHANGED <<configVars, matchVars, expandVars, findVars, settingsVars, gateVars,
                   navVars, baseVars, formatVars, cacheVars>>

NextExt ==
    \/ ConfigureBeforeActivation
    \/ Activate
    \/ OnDidChangeConfiguration
    \/ Deactivate

SpecExt == InitExt /\ [][NextExt]_vars

----------------------------------------------------------------------------
(* ComponentCache, unnamed/part_003:460-658 *)

\* the arguments of getComponents, scanWorkspace and handleFileChange
ScanArgs(root, paths, templates) ==
    [root |-> root, basePaths |-> paths, templatePaths |-> templates]

\* lines 487-489
getCacheKey(a) ==
    a.root \o <<":">> \o join(a.basePaths, ",") \o <<":">> \o join(a.templatePaths, ",")

\* the directory of the i-th base path: path.join(workspacePath, basePath)
BaseDir(a, i) == [root |-> a.root, base |-> a.basePaths[i]]

\* lines 519-534, for a base directory that holds at most one .twig file: the
\* component of the file, named by its directory
scanDirectory(onDisk, dir) == IF dir \in onDisk THEN <<dir>> ELSE <<>>

\* lines 502-506: the first base path from the i-th on whose directory exists,
\* or 0
RECURSIVE NextExisting(_, _, _)
NextExisting(a, dirs, i) ==
    IF i > Len(a.basePaths) THEN 0
    ELSE IF BaseDir(a, i) \in dirs THEN i
    ELSE NextExisting(a, dirs, i + 1)

\* Map.prototype.has, get, set and delete on the cache
CacheHas(c, key) == \E e \in c : e.key = key
CacheGet(c, key) == (CHOOSE e \in c : e.key = key).components
CacheDelete(c, key) == { e \in c : e.key # key }
CacheSet(c, key, components) ==
    CacheDelete(c, key) \cup {[key |-> key, components |-> components]}

\* Set.prototype.add on the scan queue, which iterates in insertion order
QueueAdd(q, key) == IF \E i \in 1..Len(q) : q[i] = key THEN q ELSE Append(q, key)

\* lines 600-627: the watchers of the key last scanned, one for each base path
\* whose directory exists; all earlier watchers are disposed
setupFileWatchers(a, dirs) ==
    { [args |-> a, dir |-> BaseDir(a, i)] : i \in { k \in 1..Len(a.basePaths) : BaseDir(a, k) \in dirs } }

\* an async call suspended at an await
Suspended(kind, a, pc, next, components) ==
    [kind |-> kind, args |-> a, pc |-> pc, next |-> next, components |-> components]

sGetComponents == "getComponents"
sHandleFileChange == "handleFileChange"
sProcessScanQueue == "processScanQueue"

\* the caller of scanWorkspace goes on after its await: getComponents has line
\* 484 left to run, the other callers nothing
AfterScanWorkspace(tasks, kind, a) ==
    IF kind = sGetComponents
    THEN Append(tasks, Suspended(kind, a, "return", 0, <<>>))
    ELSE tasks

\* the cache object and what is suspended on it
CacheState(c, watchers, scanning, queue, tasks, waiting) ==
    [cache |-> c, fileWatchers |-> watchers, isScanning |-> scanning, scanQueue |-> queue,
     pending |-> tasks, unscanned |-> waiting]

\* vscode.workspace.getWorkspaceFolder(Uri.file(workspacePath)) for the roots of
\* the workspace
GetWorkspaceFolder(roots, workspacePath) ==
    IF workspacePath \in roots THEN Some(workspacePath) ELSE Null

RECURSIVE ScanFrom(_, _, _, _, _, _, _, _)
RECURSIVE ScanCompleted(_, _, _, _, _, _, _)
RECURSIVE processScanQueue(_, _, _, _)
RECURSIVE scanWorkspace(_, _, _, _, _, _)

\* lines 502-508: the loop from the i-th base path on, up to the next await
ScanFrom(st, onDisk, dirs, roots, kind, a, i, components) ==
    IF NextExisting(a, dirs, i) > 0
    THEN [st EXCEPT !.pending =
             Append(@, Suspended(kind, a, "scanDirectory", NextExisting(a, dirs, i) + 1,
                                 components
                                 \o scanDirectory(onDisk, BaseDir(a, NextExisting(a, dirs, i)))))]
    ELSE ScanCompleted(st, onDisk, dirs, roots, kind, a, components)

\* lines 510-516: the entry is stored, the watchers are replaced, and the finally
\* block clears isScanning and starts on the queue
ScanCompleted(st, onDisk, dirs, roots, kind, a, components) ==
    processScanQueue(
        [st EXCEPT !.cache = CacheSet(@, getCacheKey(a), components),
                   !.fileWatchers = setupFileWatchers(a, dirs),
                   !.isScanning = FALSE,
                   !.unscanned = @ \ {a},
                   !.pending = AfterScanWorkspace(@, kind, a)],
        onDisk, dirs, roots)

\* lines 635-651, up to its await: the first key of the queue is taken and split
\* into the arguments of a scan
processScanQueue(st, onDisk, dirs, roots) ==
    IF st.scanQueue = <<>> THEN st
    ELSE LET parts == split(Head(st.scanQueue), ":")
             workspaceFolder == GetWorkspaceFolder(roots, parts[1])
             taken == [st EXCEPT !.scanQueue = Tail(@)]
         IN IF workspaceFolder = Null THEN taken
            ELSE scanWorkspace(taken, onDisk, dirs, roots, sProcessScanQueue,
                               ScanArgs(workspaceFolder[1], split(parts[2], ","),
                                        split(parts[3], ",")))

\* lines 491-517, up to its first await
scanWorkspace(st, onDisk, dirs, roots, kind, a) ==
    IF st.isScanning
    THEN [st EXCEPT !.scanQueue = QueueAdd(@, getCacheKey(a)),
                    !.unscanned = @ \cup {a},
                    !.pending = AfterScanWorkspace(@, kind, a)]
    ELSE ScanFrom([st EXCEPT !.isScanning = TRUE], onDisk, dirs, roots, kind, a, 1, <<>>)

\* what a scan of the arguments finds on the disk as it is
RECURSIVE Inventory(_, _, _, _)
Inventory(a, onDisk, dirs, i) ==
    IF NextExisting(a, dirs, i) = 0 THEN <<>>
    ELSE scanDirectory(onDisk, BaseDir(a, NextExisting(a, dirs, i)))
         \o Inventory(a, onDisk, dirs, NextExisting(a, dirs, i) + 1)

----------------------------------------------------------------------------
(* The component cache against calls and file events: SpecCache *)

sPosixRoot == <<"/", "w">>
sWindowsRoot == <<"c", ":", "\\", "w">>
sBaseA == <<"a">>
sBaseB == <<"b">>
sDefaultTemplate == sNamespaceVar \o <<"/">> \o sComponentNameVar \o sHtmlTwig

\* the workspace folders: one of a POSIX machine, one of a Windows machine
WorkspaceRoots == { sPosixRoot, sWindowsRoot }

ScanArgsPool ==
    { ScanArgs(sPosixRoot, <<sBaseA>>, <<sDefaultTemplate>>),
      ScanArgs(sPosixRoot, <<sBaseA, sBaseB>>, <<sDefaultTemplate>>),
      ScanArgs(sWindowsRoot, <<sBaseA>>, <<sDefaultTemplate>>) }

BaseDirPool ==
    { [root |-> sPosixRoot, base |-> sBaseA], [root |-> sPosixRoot, base |-> sBaseB],
      [root |-> sWindowsRoot, base |-> sBaseA] }

Now ==
    CacheState(cache, fileWatchers, isScanning, scanQueue, pending, unscanned)

Becomes(st) ==
    /\ cache' = st.cache
    /\ fileWatchers' = st.fileWatchers
    /\ isScanning' = st.isScanning
    /\ scanQueue' = st.scanQueue
    /\ pending' = st.pending
    /\ unscanned' = st.unscanned

WithoutPending(st, i) ==
    [st EXCEPT !.pending = SubSeq(@, 1, i - 1) \o SubSeq(@, i + 1, Len(@))]

\* what getComponents hands back, whether from the entry found at line 479, and
\* what a scan would have found then
Returned(a, components, hit) ==
    Some([args |-> a, components |-> components, hit |-> hit,
          onDisk |-> Inventory(a, twigOnDisk, componentDirs, 1)])

InitCache ==
    /\ excludedDirectoryNames = DefaultExcludedDirectoryNames
    /\ pathOptions = NotRead
    /\ MatchIdle
    /\ ExpandIdle
    /\ FindIdle
    /\ SettingsIdle
    /\ GateIdle
    /\ NavIdle
    /\ BaseIdle
    /\ FormatIdle
    /\ ExtIdle
    /\ CacheIdle

\* lines 476-485 up to the await of line 483: a caller asks for the components
GetComponents ==
    /\ calls < MaxCalls
    /\ calls' = calls + 1
    /\ \E a \in ScanArgsPool :
          IF CacheHas(cache, getCacheKey(a))
          THEN /\ returned' = Returned(a, CacheGet(cache, getCacheKey(a)), TRUE)
               /\ UNCHANGED <<cache, fileWatchers, isScanning, scanQueue, pending, unscanned>>
          ELSE /\ Becomes(scanWorkspace(Now, twigOnDisk, componentDirs, WorkspaceRoots,
                                        sGetComponents, a))
               /\ UNCHANGED returned
    /\ UNCHANGED <<twigOnDisk, componentDirs, debounced, fileEvents>>
    /\ UNCHANGED <<configVars, matchVars, expandVars, findVars, settingsVars, gateVars,
                   navVars, baseVars, formatVars, extVars>>

\* line 507: a scan goes on after the await of scanDirectory
ScanResumes ==
    /\ \E i \in 1..Len(pending) :
          /\ pending[i].pc = "scanDirectory"
          /\ Becomes(ScanFrom(WithoutPending(Now, i), twigOnDisk, componentDirs,
                              WorkspaceRoots, pending[i].kind, pending[i].args,
                              pending[i].next, pending[i].components))
    /\ UNCHANGED <<twigOnDisk, componentDirs, debounced, returned, calls, fileEvents>>
    /\ UNCHANGED <<configVars, matchVars, expandVars, findVars, settingsVars, gateVars,
                   navVars, baseVars, formatVars, extVars>>

\* line 484: getComponents goes on after the await of scanWorkspace
GetComponentsReturns ==
    /\ \E i \in 1..Len(pending) :
          /\ pending[i].pc = "return"
          /\ returned' =
                Returned(pending[i].args,
                         IF CacheHas(cache, getCacheKey(pending[i].args))
                         THEN CacheGet(cache, getCacheKey(pending[i].args))
                         ELSE <<>>,
                         FALSE)
          /\ pending' = WithoutPending(Now, i).pending
    /\ UNCHANGED <<twigOnDisk, componentDirs, cache, fileWatchers, isScanning, scanQueue,
                   debounced, unscanned, calls, fileEvents>>
    /\ UNCHANGED <<configVars, matchVars, expandVars, findVars, settingsVars, gateVars,
                   navVars, baseVars, formatVars, extVars>>

\* lines 612-623: the watchers whose pattern covers the directory start their
\* debounce timer
Notified(dir) == debounced \cup { w \in fileWatchers : w.dir = dir }

\* a .twig file is created in a base directory; no call is in progress
CreateTwigFile ==
    /\ pending = <<>>
    /\ fileEvents < MaxFileEvents
    /\ fileEvents' = fileEvents + 1
    /\ \E dir \in BaseDirPool \ twigOnDisk :
          /\ twigOnDisk' = twigOnDisk \cup {dir}
          /\ componentDirs' = componentDirs \cup {dir}
          /\ debounced' = Notified(dir)
    /\ UNCHANGED <<cache, fileWatchers, isScanning, scanQueue, pending, returned, unscanned,
                   calls>>
    /\ UNCHANGED <<configVars, matchVars, expandVars, findVars, settingsVars, gateVars,
                   navVars, baseVars, formatVars, extVars>>

\* the .twig file of a base directory is deleted; no call is in progress
DeleteTwigFile ==
    /\ pending = <<>>
    /\ fileEvents < MaxFileEvents
    /\ fileEvents' = fileEvents + 1
    /\ \E dir \in twigOnDisk :
          /\ twigOnDisk' = twigOnDisk \ {dir}
          /\ debounced' = Notified(dir)
    /\ UNCHANGED <<componentDirs, cache, fileWatchers, isScanning, scanQueue, pending,
                   returned, unscanned, calls>>
    /\ UNCHANGED <<configVars, matchVars, expandVars, findVars, settingsVars, gateVars,
                   navVars, baseVars, formatVars, extVars>>

\* lines 617-619 and 629-633: a debounce timer fires and handleFileChange runs up
\* to its await
HandleFileChange ==
    /\ pending = <<>>
    /\ \E w \in debounced :
          /\ debounced' = debounced \ {w}
          /\ Becomes(scanWorkspace(
                        [Now EXCEPT !.cache = CacheDelete(@, getCacheKey(w.args))],
                        twigOnDisk, componentDirs, WorkspaceRoots, sHandleFileChange,
                        w.args))
    /\ UNCHANGED <<twigOnDisk, componentDirs, returned, calls, fileEvents>>
    /\ UNCHANGED <<configVars, matchVars, expandVars, findVars, settingsVars, gateVars,
                   navVars, baseVars, formatVars, extVars>>

NextCache ==
    \/ GetComponents
    \/ ScanResumes
    \/ GetComponentsReturns
    \/ CreateTwigFile
    \/ DeleteTwigFile
    \/ HandleFileChange

SpecCache == InitCache /\ [][NextCache]_vars

----------------------------------------------------------------------------
(* Properties of the matcher, stated without the matcher's own operators *)

\* c is b with its trailing slashes removed
IsStrippedOf(c, b) ==
    /\ Len(c) <= Len(b)
    /\ SubSeq(b, 1, Len(c)) = c
    /\ \A i \in (Len(c) + 1)..Len(b) : b[i] = "/"
    /\ (c = Empty \/ c[Len(c)] # "/")

\* the base namespace the configuration derives from base path b
DerivedBaseNamespace(b) == BasePathNamespace(b, excludedDirectoryNames)

\* ns = B + ":" + R with R non-empty
HasPrefixNamespace(ns, B) ==
    Len(ns) > Len(B) + 1 /\ SubSeq(ns, 1, Len(B) + 1) = B \o <<":">>

RemainderAfter(ns, B) == SubSeq(ns, Len(B) + 2, Len(ns))

ParseDone == parsePc = "done"
Result == parseResult[1]

C1_Precondition ==
    /\ ParseDone
    /\ fullNamespace # Empty
    /\ Len(basePaths) >= 1
    /\ DerivedBaseNamespace(basePaths[1]) = fullNamespace

\* C1: exact match.  When the first base path's derived base namespace equals the
\* non-empty namespace, the matcher returns that base path with its trailing
\* slashes stripped and an empty remaining namespace.
C1_ExactMatch ==
    C1_Precondition =>
        /\ Result.matchedBasePath # Null
        /\ IsStrippedOf(Result.matchedBasePath[1], basePaths[1])
        /\ Result.remainingNamespace = Empty

C1_Witness ==
    /\ C1_Precondition
    /\ Len(basePaths) = 2
    /\ basePaths[1][Len(basePaths[1])] = "/"
    /\ Len(split(fullNamespace, ":")) = 1

C2_Precondition ==
    /\ ParseDone
    /\ Len(basePaths) = 1
    /\ DerivedBaseNamespace(basePaths[1]) # Empty
    /\ HasPrefixNamespace(fullNamespace, DerivedBaseNamespace(basePaths[1]))

\* C2 as stated: prefix match against the single base path b returns
\* matchedBasePath = b itself and the remainder R.
C2_PrefixMatch_AsStated ==
    C2_Precondition =>
        /\ Result.matchedBasePath = Some(basePaths[1])
        /\ Result.remainingNamespace =
              RemainderAfter(fullNamespace, DerivedBaseNamespace(basePaths[1]))

\* C2 amended: prefix match against the single base path b returns b with its
\* trailing slashes stripped and exactly the remainder R.
C2_PrefixMatch ==
    C2_Precondition =>
        /\ Result.matchedBasePath # Null
        /\ IsStrippedOf(Result.matchedBasePath[1], basePaths[1])
        /\ Result.remainingNamespace =
              RemainderAfter(fullNamespace, DerivedBaseNamespace(basePaths[1]))

C2_Witness ==
    /\ C2_Precondition
    /\ basePaths[1][Len(basePaths[1])] = "/"
    /\ Result.remainingNamespace = sMenu

\* base path b matches ns by one of the strategies of the first loop
\* (exact, prefix, reverse, contained)
MatchesPrecisely(b, ns) ==
    LET B == DerivedBaseNamespace(b)
    IN /\ B # Empty
       /\ \/ B = ns
          \/ Len(ns) > Len(B) /\ SubSeq(ns, 1, Len(B) + 1) = B \o <<":">>
          \/ \E i \in 1..(Len(B) + 1) :
                i + Len(ns) - 1 <= Len(B) /\ SubSeq(B, i, i + Len(ns) - 1) = ns

MatchesExactly(b, ns) == ns # Empty /\ DerivedBaseNamespace(b) = ns

\* C3 as stated: when some base path matches the namespace exactly, the returned
\* base path is one that matches exactly.
C3_ExactNeverShadowed_AsStated ==
    (ParseDone /\ \E i \in 1..Len(basePaths) : MatchesExactly(basePaths[i], fullNamespace))
        => /\ Result.matchedBasePath # Null
           /\ \E i \in 1..Len(basePaths) :
                 /\ MatchesExactly(basePaths[i], fullNamespace)
                 /\ IsStrippedOf(Result.matchedBasePath[1], basePaths[i])

C3_Precondition ==
    ParseDone /\ \E i \in 1..Len(basePaths) : MatchesPrecisely(basePaths[i], fullNamespace)

FirstPrecise ==
    CHOOSE i \in 1..Len(basePaths) :
        /\ MatchesPrecisely(basePaths[i], fullNamespace)
        /\ \A j \in 1..(i - 1) : ~MatchesPrecisely(basePaths[j], fullNamespace)

\* C3 amended: when some base path matches by exact, prefix, reverse or contained
\* match, the first such base path in list order is returned (with an empty
\* remainder if it matches exactly); a base path that matches only by an ordered or
\* unordered partial match is never returned in its place.
C3_PreciseNeverShadowedByPartial ==
    C3_Precondition =>
        /\ Result.matchedBasePath # Null
        /\ IsStrippedOf(Result.matchedBasePath[1], basePaths[FirstPrecise])
        /\ MatchesExactly(basePaths[FirstPrecise], fullNamespace)
              => Result.remainingNamespace = Empty

C3_Witness ==
    /\ C3_Precondition
    /\ Len(basePaths) = 2
    /\ FirstPrecise = 2
    /\ MatchesExactly(basePaths[2], fullNamespace)
    /\ SecondLoopBody(fullNamespace, basePaths[1], excludedDirectoryNames) # Null

\* base path b contributes no namespace: all its segments are excluded
HasEmptyBaseNamespace(b) == DerivedBaseNamespace(b) = Empty

\* C12: for an empty full namespace and a base-path list holding a base path whose
\* derived base namespace is empty, the matcher returns such a base path with an
\* empty remainder: not "no match", and not a base path whose derived namespace
\* is non-empty.
C12_EmptyNamespace ==
    ( /\ ParseDone
      /\ fullNamespace = Empty
      /\ \E i \in 1..Len(basePaths) : HasEmptyBaseNamespace(basePaths[i]) )
    => /\ Result.matchedBasePath # Null
       /\ Result.remainingNamespace = Empty
       /\ \E i \in 1..Len(basePaths) :
             /\ HasEmptyBaseNamespace(basePaths[i])
             /\ IsStrippedOf(Result.matchedBasePath[1], basePaths[i])

\* the filtered segments of base path b
BaseSegments(b) ==
    IF DerivedBaseNamespace(b) = Empty THEN <<>> ELSE split(DerivedBaseNamespace(b), ":")

NamespaceSegments(ns) == split(ns, ":")

\* namespace segment x occurs among the filtered segments of b, whatever the case
OccursIn(b, x) ==
    \E j \in 1..Len(BaseSegments(b)) : toLowerCase(BaseSegments(b)[j]) = toLowerCase(x)

SharesSegment(b, ns) ==
    \E i \in 1..Len(NamespaceSegments(ns)) : OccursIn(b, NamespaceSegments(ns)[i])

HasCommonLeadingSegment(b, ns) ==
    /\ BaseSegments(b) # <<>>
    /\ toLowerCase(BaseSegments(b)[1]) = toLowerCase(NamespaceSegments(ns)[1])

MatchesUnordered(b, ns) == SharesSegment(b, ns) /\ ~HasCommonLeadingSegment(b, ns)

\* the namespace segments that occur nowhere in b, in their original order
UnmatchedSegments(b, ns) ==
    SelectSeq(NamespaceSegments(ns), LAMBDA x : ~OccursIn(b, x))

NoPreciseMatch ==
    \A i \in 1..Len(basePaths) : ~MatchesPrecisely(basePaths[i], fullNamespace)

ReturnsUnordered(b) ==
    /\ Result.matchedBasePath # Null
    /\ IsStrippedOf(Result.matchedBasePath[1], b)
    /\ Result.remainingNamespace = join(UnmatchedSegments(b, fullNamespace), ":")

\* C23 as stated: with no precise match, the first base path in list order that
\* shares a segment with the namespace but not the leading one is the base path
\* returned, whatever the base paths before it.
C23_UnorderedMatch_AsStated ==
    (ParseDone /\ NoPreciseMatch) =>
        \A i \in 1..Len(basePaths) :
            ( /\ MatchesUnordered(basePaths[i], fullNamespace)
              /\ \A j \in 1..(i - 1) : ~MatchesUnordered(basePaths[j], fullNamespace) )
            => ReturnsUnordered(basePaths[i])

C23_Precondition ==
    /\ ParseDone
    /\ NoPreciseMatch
    /\ \E i \in 1..Len(basePaths) : MatchesUnordered(basePaths[i], fullNamespace)

\* C23 amended: with no precise match, the first base path in list order that
\* shares any segment with the namespace, if it shares no leading segment, is
\* returned (trailing slashes stripped) with remainder = the namespace segments
\* that occur nowhere among its filtered segments, in their original order.
C23_UnorderedMatch ==
    (ParseDone /\ NoPreciseMatch) =>
        \A i \in 1..Len(basePaths) :
            ( /\ MatchesUnordered(basePaths[i], fullNamespace)
              /\ \A j \in 1..(i - 1) : ~SharesSegment(basePaths[j], fullNamespace) )
            => ReturnsUnordered(basePaths[i])

C23_Witness ==
    /\ C23_Precondition
    /\ Len(basePaths) = 2
    /\ ~SharesSegment(basePaths[1], fullNamespace)
    /\ MatchesUnordered(basePaths[2], fullNamespace)
    /\ Len(NamespaceSegments(fullNamespace)) = 3
    /\ Len(UnmatchedSegments(basePaths[2], fullNamespace)) = 2

----------------------------------------------------------------------------
(* Properties of the expander *)

ExpandDone == expandPc = "done"

\* the path the template stands for: every ':' of the remainder becomes a
\* separator, the component name is filled in, repeated separators collapse
ExpectedPath(basePath, template, remainder, componentName) ==
    pathJoin(<< basePath,
                StripLeadingSlash(CollapseSlashes(
                    replaceFirst(replaceFirst(template, sNamespaceVar,
                                              replaceAllChar(remainder, ":", "/")),
                                 sComponentNameVar, componentName))) >>)

\* C4: generatePossiblePaths returns one path per template, in template order,
\* each the base path joined with the template with the namespace remainder
\* s1/.../sk and the component name filled in, and no ':' of the remainder is left
\* in a generated path.
C4_TemplateExpansion ==
    ExpandDone =>
        /\ Len(expandResult[1]) = Len(expandArgs.componentPaths)
        /\ \A i \in 1..Len(expandArgs.componentPaths) :
              /\ expandResult[1][i] =
                    ExpectedPath(expandArgs.basePath, expandArgs.componentPaths[i],
                                 expandArgs.remainingNamespace, expandArgs.componentName)
              /\ ~includes(expandResult[1][i], <<":">>)

----------------------------------------------------------------------------
(* Properties of the cursor gate *)

GateDone == gatePc = "done"

\* the positions of the line where a component tag starts
TagStarts(line) == { i \in 1..Len(line) : MatchesAt(line, i) }

\* the cursor column lies in the namespace span or in the component-name span of
\* the tag that starts at position i; a span runs from the column before its
\* first character to the column after its last one
OnTagAt(line, character, i) ==
    LET t == MatchAt(line, i)
        namespaceFrom == t.index + 6
        namespaceTo == namespaceFrom + Len(t.namespace)
        nameFrom == namespaceTo + 1
        nameTo == nameFrom + Len(t.name)
    IN \/ character \in namespaceFrom..namespaceTo
       \/ character \in nameFrom..nameTo

\* C19: the resolution proceeds exactly when the cursor lies in the namespace
\* span or the component-name span of a component tag of the line, whichever tag
\* of the line it is, and then for that tag; on "<twig:", on attributes and
\* elsewhere the result is none.
C19_CursorGate ==
    GateDone =>
        /\ (gateResult # Null)
              <=> (\E i \in TagStarts(gateLine) : OnTagAt(gateLine, gateCursor, i))
        /\ gateResult # Null =>
              \E i \in TagStarts(gateLine) :
                  /\ OnTagAt(gateLine, gateCursor, i)
                  /\ gateResult[1].fullNamespace = MatchAt(gateLine, i).namespace
                  /\ gateResult[1].componentName = MatchAt(gateLine, i).name

----------------------------------------------------------------------------
(* Properties of getConfiguredPaths *)

ConfigDone == configPc = "done"
Configured == configuredPaths[1]

\* the user wrote a list / a non-empty list at this place
IsList(v) == v.kind = "array"
IsSetList(v) == v.kind = "array" /\ v.items # <<>>
IsMalformed(v) == v.kind \notin {"undefined", "array"}

\* every entry the user wrote has the expected shape
WellFormed(s) ==
    /\ s.componentPaths.kind \in {"undefined", "object"}
    /\ \A k \in Options :
          ~IsMalformed(NestedProps(s)[k]) /\ ~IsMalformed(s.flat[k]) /\ ~IsMalformed(s.legacy[k])

\* nested object, then flat key, then legacy key, then built-in default
ByPrecedence(s, k) ==
    IF IsList(NestedProps(s)[k]) THEN NestedProps(s)[k]
    ELSE IF IsSetList(s.flat[k]) THEN s.flat[k]
    ELSE IF IsSetList(s.legacy[k]) THEN s.legacy[k]
    ELSE Arr(BuiltInDefault(k))

\* C13: each of the six options is resolved on its own: from the nested
\* componentPaths object when present there, otherwise from the flat key when
\* set, otherwise from the legacy key when set, otherwise the built-in default.
C13_Precedence ==
    (ConfigDone /\ WellFormed(settings)) =>
        \A k \in Options : Configured[k] = ByPrecedence(settings, k)

\* C14: whatever the settings hold, an empty list included, each of the six
\* lists getConfiguredPaths returns is non-empty.
C14_NonEmptyAfterDefaulting ==
    (ConfigDone /\ WellFormed(settings)) =>
        \A k \in Options : IsSetList(Configured[k])

\* the settings with every entry of the wrong shape removed
Unshaped(v) == IF IsMalformed(v) THEN Undefined ELSE v
WithoutMalformed(s) ==
    [ componentPaths |->
          IF s.componentPaths.kind = "object"
          THEN Obj([ k \in Options |-> Unshaped(s.componentPaths.props[k]) ])
          ELSE Undefined,
      flat |-> [ k \in Options |-> Unshaped(s.flat[k]) ],
      legacy |-> [ k \in Options |-> Unshaped(s.legacy[k]) ] ]

\* C15: a value of the wrong shape, at any of the three levels or for
\* componentPaths itself, gives the result the settings without that value
\* give, and every option returned is a list.
C15_MalformedEqualsUnset ==
    ConfigDone =>
        /\ Configured = getConfiguredPaths(WithoutMalformed(settings))
        /\ \A k \in Options : IsList(Configured[k])

----------------------------------------------------------------------------
(* Properties of findComponentFiles *)

FindDone == findPc = "done"

\* the call passed the cursor gate and found workspace folders
Resolved == FindDone /\ tag.cursorOnTag /\ workspaceFolders # Null

Roots == workspaceFolders[1]

sScenarioATemplate == <<"W","i","d","g","e","t","/","${namespace}","/","${componentName}",".ext">>
sScenarioAExpected == <<"s","r","c","/","W","i","d","g","e","t","/","C","a","r","d","s","/","S","t","a","t",".ext">>
sScenarioAFullNamespace == <<"s","r","c","/","W","i","d","g","e","t","/","W","i","d","g","e","t","/","C","a","r","d","s","/","S","t","a","t",".ext">>

ScenarioA ==
    /\ Resolved
    /\ pathOptions.phpBasePaths = <<sSrc>>
    /\ pathOptions.phpComponentPaths = <<sScenarioATemplate>>
    /\ excludedDirectoryNames = <<sSrc>>
    /\ tag.fullNamespace = Ns(<<sWidget, sCards>>)
    /\ tag.componentName = sStat

\* C5 as stated: in Scenario A the logic-file candidate list contains
\* "src/Widget/Cards/Stat.ext".
C5_ScenarioA_AsStated ==
    ScenarioA => ArrIncludes(phpPossiblePaths, sScenarioAExpected)

\* C5 amended: in Scenario A the matcher finds no logic base path ("src" derives the
\* empty base namespace), so the full namespace fills the placeholder: the logic-file
\* candidate list is exactly <<"src/Widget/Widget/Cards/Stat.ext">> when the template
\* matcher finds no base path either, it is empty when the template matcher finds
\* one, and it never contains "src/Widget/Cards/Stat.ext".
C5_ScenarioA ==
    ScenarioA =>
        /\ matchResults.php.matchedBasePath = Null
        /\ ~ArrIncludes(phpPossiblePaths, sScenarioAExpected)
        /\ phpPossiblePaths = IF matchResults.twig.matchedBasePath = Null
                              THEN <<sScenarioAFullNamespace>>
                              ELSE <<>>

C5_Witness ==
    /\ ScenarioA
    /\ phpPossiblePaths = <<sScenarioAFullNamespace>>
    /\ foundPhpFiles = << sW1 \o <<"/">> \o sScenarioAFullNamespace >>

\* every base path with every template, the full namespace filled in
FullNamespaceExpansions(paths, templates) ==
    { ExpandTemplate(paths[i], templates[j], tag.fullNamespace, tag.componentName) :
        i \in 1..Len(paths), j \in 1..Len(templates) }

Candidates(list) == { list[i] : i \in 1..Len(list) }

\* C6: for each file kind on its own, when the matcher returns no base path for that
\* kind, the kind's candidate list holds the full-namespace expansion of every
\* configured base path with every template, whatever the other kind matched.
C6_PerKindFallback ==
    Resolved =>
        /\ matchResults.php.matchedBasePath = Null
              => FullNamespaceExpansions(pathOptions.phpBasePaths,
                                         pathOptions.phpComponentPaths)
                    \subseteq Candidates(phpPossiblePaths)
        /\ matchResults.twig.matchedBasePath = Null
              => FullNamespaceExpansions(pathOptions.twigBasePaths,
                                         pathOptions.twigTemplatePaths)
                    \subseteq Candidates(twigPossiblePaths)

\* the (root, candidate) pairs that exist, root-major then in candidate order
ExistingPairs(candidates) ==
    LET perRoot == Len(candidates)
        all == [ k \in 1..(Len(Roots) * perRoot) |->
                    pathJoin(<< Roots[((k - 1) \div perRoot) + 1],
                                candidates[((k - 1) % perRoot) + 1] >>) ]
    IN SelectSeq(all, LAMBDA f : existsSync(Disk(files, probeErrors), f))

\* C7: the existence filter is exhaustive and ordered.  The found logic files and
\* the template files found by the primary search are exactly the existing
\* (root, candidate) pairs, root-major then in candidate order; nothing is skipped
\* after a first hit and a path under two roots is found twice.
C7_ExistenceFilter ==
    Resolved =>
        /\ primaryPhpFiles = ExistingPairs(phpPossiblePaths)
        /\ foundPhpFiles = ExistingPairs(phpPossiblePaths)
        /\ primaryTwigFiles = ExistingPairs(twigPossiblePaths)

C7_Witness ==
    /\ Resolved
    /\ Len(Roots) = 2
    /\ \E i, j \in 1..Len(primaryTwigFiles) :
          /\ i < j
          /\ startsWith(primaryTwigFiles[i], Roots[1] \o <<"/">>)
          /\ startsWith(primaryTwigFiles[j], Roots[2] \o <<"/">>)
          /\ substring(primaryTwigFiles[i], Len(Roots[1]))
                = substring(primaryTwigFiles[j], Len(Roots[2]))
    /\ Len(primaryPhpFiles) = 0

NoDuplicates(list) ==
    \A i, j \in 1..Len(list) : list[i] = list[j] => i = j

\* C8: neither returned list holds the same absolute file location twice.
C8_Deduplicated ==
    FindDone => NoDuplicates(foundPhpFiles) /\ NoDuplicates(foundTwigFiles)

PrimaryCallsForFallback == Len(primaryPhpFiles) > 0 /\ Len(primaryTwigFiles) = 0

\* C9: the aggressive fallback probes the disk only when the primary search found
\* a logic file and no template file; otherwise the template list is the primary
\* result, and the logic list is the primary result in every case.
C9_AggressiveGating ==
    FindDone =>
        /\ fallbackProbes # <<>> => PrimaryCallsForFallback
        /\ ~PrimaryCallsForFallback => foundTwigFiles = primaryTwigFiles
        /\ foundPhpFiles = primaryPhpFiles

C9_Witness ==
    /\ Resolved
    /\ PrimaryCallsForFallback
    /\ fallbackProbes # <<>>
    /\ Len(foundTwigFiles) > 0

sScenarioCFile == <<"t","e","m","p","l","a","t","e","s","/","c","o","m","p","o","n","e","n","t","s","/","C","a","r","d","s","/","S","t","a","t",".html.twig">>

\* C10: Scenario C.  A logic file was found, the primary search found no template,
\* "templates" is a fallback directory that exists under a workspace root and
\* templates/components/Cards/Stat.html.twig exists there: the aggressive fallback
\* adds that file to the template result.
C10_ScenarioC ==
    \A r \in 1..(IF Resolved THEN Len(Roots) ELSE 0) :
        ( /\ tag.fullNamespace = sCards
          /\ tag.componentName = sStat
          /\ PrimaryCallsForFallback
          /\ ArrIncludes(pathOptions.fallbackTemplateDirs, sTemplates)
          /\ existsSync(Disk(files, probeErrors), pathJoin(<<Roots[r], sTemplates>>))
          /\ probeErrors = {}
          /\ pathJoin(<<Roots[r], sScenarioCFile>>) \in files )
        => ArrIncludes(foundTwigFiles, pathJoin(<<Roots[r], sScenarioCFile>>))

\* the cursor gate has passed and the workspace has folders
PastGate == FindDone /\ tag.cursorOnTag /\ workspaceFolders # Null

\* C11: once the cursor gate has passed and workspace folders exist,
\* findComponentFiles returns undefined exactly when both found-file lists (after
\* the aggressive fallback) are empty, and otherwise returns the namespace, the
\* component name and exactly those two lists.
C11_FacadeResult ==
    PastGate =>
        /\ (findReturn = Null) <=> (foundPhpFiles = <<>> /\ foundTwigFiles = <<>>)
        /\ findReturn # Null =>
              /\ findReturn[1].fullNamespace = tag.fullNamespace
              /\ findReturn[1].componentName = tag.componentName
              /\ findReturn[1].phpFiles = foundPhpFiles
              /\ findReturn[1].twigFiles = foundTwigFiles

\* a logic file was found, no template: the result object carries an empty list
C11_Witness ==
    /\ PastGate
    /\ findReturn # Null
    /\ foundPhpFiles # <<>>
    /\ foundTwigFiles = <<>>


\* the options one resolution works with
UsedOptions ==
    { "phpBasePaths", "phpComponentPaths", "twigBasePaths", "twigTemplatePaths",
      "excludedDirectoryNames" }
    \cup (IF fallbackProbes # <<>> THEN {"fallbackTemplateDirs"} ELSE {})

\* C16: during one findComponentFiles call the configuration is read once, and the
\* excluded directory names, the base paths, the path templates and the fallback
\* directories the call works with all come from that one read.
C16_SingleSnapshot ==
    (FindDone /\ tag.cursorOnTag) =>
        /\ Len(configReads) = 1
        /\ UsedOptions \subseteq configReads[1].taken

\* every (root, candidate) pair, root-major, logic candidates before template
\* candidates within a root
CandidatePairs ==
    LET both == phpPossiblePaths \o twigPossiblePaths
        perRoot == Len(both)
    IN [ k \in 1..(Len(Roots) * perRoot) |->
            pathJoin(<< Roots[((k - 1) \div perRoot) + 1],
                        both[((k - 1) % perRoot) + 1] >>) ]

IsCandidatePair(f) == \E k \in 1..Len(CandidatePairs) : CandidatePairs[k] = f

\* C17 as stated: every filesystem probe of a resolution, those of the
\* aggressive fallback included, checks a (root, candidate) pair of the
\* candidate lists.
C17_OnlyCandidatesProbed_AsStated ==
    Resolved =>
        /\ \A i \in 1..Len(primaryProbes) : IsCandidatePair(primaryProbes[i])
        /\ \A i \in 1..Len(fallbackProbes) : IsCandidatePair(fallbackProbes[i].path)

\* a probe the aggressive fallback makes: a fallback directory under a root, or
\* one of the two fixed files under a template base path
IsFallbackProbe(p) ==
    \E r \in 1..Len(Roots) :
        IF p.dir
        THEN \E d \in 1..Len(pathOptions.fallbackTemplateDirs) :
                p.path = pathJoin(<<Roots[r], pathOptions.fallbackTemplateDirs[d]>>)
        ELSE \E b \in 1..Len(pathOptions.twigBasePaths) :
                \/ p.path = pathJoin(<<Roots[r], pathOptions.twigBasePaths[b],
                                       tag.componentName \o sHtmlTwig>>)
                \/ p.path = pathJoin(<<Roots[r], pathOptions.twigBasePaths[b], sComponents,
                                       replaceAllChar(tag.fullNamespace, ":", "/"),
                                       tag.componentName \o sHtmlTwig>>)

\* C17: no probe is made unless the gate has passed and a workspace folder
\* exists; the probes of the primary search are exactly the (root, candidate)
\* pairs of the two complete candidate lists, in order; every further probe
\* belongs to the aggressive fallback, which runs only after a logic file and no
\* template was found, and checks a fallback directory or one of the two fixed
\* files under a template base path.
C17_ProbesAfterCandidates ==
    FindDone =>
        /\ ~Resolved => (primaryProbes = <<>> /\ fallbackProbes = <<>>)
        /\ Resolved =>
              /\ primaryProbes = CandidatePairs
              /\ fallbackProbes # <<>> => PrimaryCallsForFallback
              /\ \A i \in 1..Len(fallbackProbes) : IsFallbackProbe(fallbackProbes[i])

\* the aggressive fallback ran and probed a path that is no candidate pair
C17_Witness ==
    /\ Resolved
    /\ Len(primaryProbes) > 1
    /\ \E i \in 1..Len(fallbackProbes) :
          ~fallbackProbes[i].dir /\ ~IsCandidatePair(fallbackProbes[i].path)

\* the pairs that exist on disk and whose check did not fail
ExistingUnfailed(candidates) ==
    LET perRoot == Len(candidates)
        all == [ k \in 1..(Len(Roots) * perRoot) |->
                    pathJoin(<< Roots[((k - 1) \div perRoot) + 1],
                                candidates[((k - 1) % perRoot) + 1] >>) ]
    IN SelectSeq(all, LAMBDA f : Exists(files, f) /\ f \notin probeErrors)

\* C18: when the existence check of one (root, candidate) pair fails, that pair
\* counts as not existing and every other pair is still checked: the found lists
\* are the ones the same disk without that file gives.
C18_ProbeFailureIsLocal ==
    (Resolved /\ probeErrors # {}) =>
        /\ Len(primaryProbes) = Len(Roots) * (Len(phpPossiblePaths) + Len(twigPossiblePaths))
        /\ foundPhpFiles = ExistingUnfailed(phpPossiblePaths)
        /\ primaryTwigFiles = ExistingUnfailed(twigPossiblePaths)
        /\ findReturn # Null =>
              findReturn[1].phpFiles = ExistingUnfailed(phpPossiblePaths)

\* the check of an existing logic file fails, and a later candidate of the same
\* list is found
C18_Witness ==
    /\ Resolved
    /\ \E i, j \in 1..Len(phpPossiblePaths) :
          /\ i < j
          /\ pathJoin(<<Roots[1], phpPossiblePaths[i]>>) \in probeErrors
          /\ pathJoin(<<Roots[1], phpPossiblePaths[i]>>) \in files
          /\ ArrIncludes(foundPhpFiles, pathJoin(<<Roots[1], phpPossiblePaths[j]>>))


----------------------------------------------------------------------------
(* Properties of the navigation *)

\* a navigation triggered without the modifier key: the plain command, or a click
\* served by the definition provider
WithoutModifier ==
    /\ navRequest # NotRead
    /\ \/ navRequest.via = "command"
       \/ navRequest.via = "definition" /\ navRequest.click

FoundPhp == navRequest.result[1].phpFiles
FoundTwig == navRequest.result[1].twigFiles

\* every handler of the navigation has run
NavigationSettled == ~timer /\ definition = Null

\* C20: for a navigation without the modifier key, (a) when a logic file and a
\* template file were found a quick pick is shown and no file is opened before the
\* user accepts an item, and (b) when files of one kind only were found the first
\* file of that kind is opened directly and no quick pick is shown; on the command
\* path and on the definition-provider path alike.
C20_NavigationChoice ==
    (WithoutModifier /\ navRequest.result # Null) =>
        /\ (FoundPhp # <<>> /\ FoundTwig # <<>>) =>
              /\ ~accepted => opened = <<>>
              /\ NavigationSettled => quickPickShown
        /\ (FoundPhp = <<>> \/ FoundTwig = <<>>) =>
              /\ ~quickPickShown
              /\ NavigationSettled =>
                    opened = << IF FoundPhp # <<>> THEN FoundPhp[1] ELSE FoundTwig[1] >>

----------------------------------------------------------------------------
(* Properties of findMatchingBasePath *)

BaseDone == basePc = "done"
BaseResult == baseMatch[1]

\* the segments of base path b that are neither empty nor excluded names
BaseNamespaceSegments(b) ==
    SelectSeq(split(b, "/"),
              LAMBDA part : part # Empty
                            /\ ~ArrIncludes(excludedDirectoryNames, toLowerCase(part)))

\* the reference begins with all segments of b, as whole segments
BeginsWithSegments(ref, b) ==
    /\ Len(BaseNamespaceSegments(b)) <= Len(split(ref, ":"))
    /\ SubSeq(split(ref, ":"), 1, Len(BaseNamespaceSegments(b))) = BaseNamespaceSegments(b)

\* the reference without the leading segments it shares with b
WithoutSegments(ref, b) ==
    join(SubSeq(split(ref, ":"), Len(BaseNamespaceSegments(b)) + 1, Len(split(ref, ":"))), ":")

\* C26: whole-segment base matching.  A base path is returned only if its filtered
\* segments are the leading segments of the reference, and the remainder is the
\* reference without those segments and their separator: it never begins with ':'
\* and never starts inside a segment.
C26_WholeSegmentMatch ==
    (BaseDone /\ BaseResult.foundBasePath # Null) =>
        /\ BeginsWithSegments(fullComponentPath, BaseResult.foundBasePath[1])
        /\ BaseResult.remainingNamespace =
              WithoutSegments(fullComponentPath, BaseResult.foundBasePath[1])
        /\ ~startsWith(BaseResult.remainingNamespace, <<":">>)

----------------------------------------------------------------------------
(* Properties of the formatter *)

FormatDone == formatPc = "done"
Edits == edits[1]
RangeLines == formatRange[1].startLine..formatRange[1].endLine

\* the text without its closing bracket, '/>' or '>'
WithoutClosing(text) ==
    IF endsWith(trim(text), <<"/", ">">>)
    THEN trim(SubSeq(trim(text), 1, Len(trim(text)) - 2))
    ELSE IF endsWith(trim(text), <<">">>)
    THEN trim(SubSeq(trim(text), 1, Len(trim(text)) - 1))
    ELSE trim(text)

ClosingOf(text) == IF endsWith(trim(text), <<"/", ">">>) THEN <<"/", ">">> ELSE <<">">>

\* the words of a tag's text: what blanks and line breaks separate
WordsOf(text) ==
    SelectSeq(split(replaceAllChar(WithoutClosing(text), sNewline, " "), " "),
              LAMBDA w : w # Empty)

TagNameOf(text) == WordsOf(text)[1]

\* everything between the tag name and the closing bracket
AttributeWordsOf(text) == Tail(WordsOf(text))

CountOf(text, c) == Cardinality({ i \in 1..Len(text) : text[i] = c })

\* the line holds one component tag, opened and closed on the line
IsOneTagLine(line) ==
    /\ startsWith(trim(line), sTwigOpen)
    /\ endsWith(line, <<">">>)
    /\ CountOf(line, "<") = 1
    /\ CountOf(line, ">") = 1

\* the tag name has a namespace of two or more levels
HasMultiLevelNamespace(line) == Len(split(TagNameOf(line), ":")) >= 4

RECURSIVE OnOwnLines(_, _)
OnOwnLines(words, indent) ==
    IF words = <<>> THEN Empty
    ELSE <<sNewline>> \o indent \o words[1] \o OnOwnLines(Tail(words), indent)

\* the layout the README shows for a tag written on one line
ExpectedLayout(line) ==
    LET indent == SubSeq(line, 1, FirstNonWhitespaceCharacterIndex(line))
    IN TagNameOf(line)
       \o OnOwnLines(AttributeWordsOf(line), indent \o <<" ", " ", " ", " ">>)
       \o <<sNewline>> \o indent \o ClosingOf(line)

IsFlattenedMultiLevel(line) ==
    /\ IsOneTagLine(line)
    /\ HasMultiLevelNamespace(line)
    /\ Len(AttributeWordsOf(line)) >= 2

\* C21: formatting layout.  Under the default style, every tag with a multi-level
\* namespace and two or more attributes written on one line of the formatted
\* range, the first line included, gets an edit whose text is the complete tag
\* name, each attribute on its own line indented by the line's leading whitespace
\* plus four spaces, and the closing bracket on its own line.
C21_FormattingLayout ==
    (FormatDone /\ formatConfig.formattingStyle = sMultiline) =>
        \A k \in RangeLines :
            IsFlattenedMultiLevel(document[k + 1]) =>
                \E e \in 1..Len(Edits) :
                    /\ Edits[e].range.startLine = k
                    /\ Edits[e].range.endLine = k
                    /\ Edits[e].newText = ExpectedLayout(document[k + 1])

\* position (line, char) is before position (line2, char2)
Before(line, char, line2, char2) == line < line2 \/ (line = line2 /\ char < char2)

\* two ranges share a character, or are the same range
Overlap(r, q) ==
    \/ r = q
    \/ /\ Before(r.startLine, r.startChar, q.endLine, q.endChar)
       /\ Before(q.startLine, q.startChar, r.endLine, r.endChar)

\* C27: no overlapping edits.  No two of the edits formatTwigComponents returns
\* have overlapping or identical ranges.
C27_NoOverlappingEdits ==
    FormatDone =>
        \A i, j \in 1..Len(Edits) : i # j => ~Overlap(Edits[i].range, Edits[j].range)

\* the text of the document in the range
ReplacedText(doc, r) ==
    IF r.startLine = r.endLine
    THEN SubSeq(doc[r.startLine + 1], r.startChar + 1, r.endChar)
    ELSE substring(doc[r.startLine + 1], r.startChar)
         \o MiddleLines(doc, r.startLine + 1, r.endLine)
         \o <<sNewline>> \o SubSeq(doc[r.endLine + 1], 1, r.endChar)

\* C28: formatting preserves content.  For every edit, what lies between the tag
\* name and the closing bracket of the replacement is what lay there in the
\* replaced text: every attribute once, in the original order.
C28_ContentPreserved ==
    FormatDone =>
        \A e \in 1..Len(Edits) :
            AttributeWordsOf(Edits[e].newText)
                = AttributeWordsOf(ReplacedText(document, Edits[e].range))

----------------------------------------------------------------------------
(* Properties of activation and re-registration *)

\* the number of live registrations of the kind
LiveCount(kind) ==
    Cardinality({ i \in 1..Len(registry) : registry[i].kind = kind /\ registry[i].live })

\* C24: re-registration on configuration change.  After every configuration change
\* of the section, the first and every later one, there is exactly one live
\* registration of the format command and of each formatting provider the new
\* configuration enables, and none of a provider it disables.
C24_Reregistration ==
    (extState = "active" /\ configChanges >= 1) =>
        /\ LiveCount(sFormatCommand) = 1
        /\ LiveCount(sFormattingProvider) = (IF extSettings.enabled THEN 1 ELSE 0)
        /\ LiveCount(sRangeFormattingProvider) = (IF extSettings.enabled THEN 1 ELSE 0)

\* C25: the navigation command stays available.  While the extension is active
\* the navigation command is registered, and every live registration is held in
\* context.subscriptions.
C25_NavigationCommandStays ==
    extState = "active" =>
        /\ LiveCount(sNavigateCommand) = 1
        /\ \A i \in 1..Len(registry) :
              registry[i].live => \E k \in 1..Len(subscriptions) : subscriptions[k] = i

----------------------------------------------------------------------------
(* Properties of the component cache *)

\* nothing is suspended and no debounce timer is running
CacheQuiescent == pending = <<>> /\ debounced = {}

\* C22: cache invalidation.  Once every file event has been handled, each entry of
\* the cache is the inventory a scan of its key finds on the disk: no entry keeps
\* a pre-change inventory, also when other keys were scanned in between.
C22_CacheInvalidation ==
    CacheQuiescent =>
        \A a \in ScanArgsPool :
            CacheHas(cache, getCacheKey(a)) =>
                CacheGet(cache, getCacheKey(a)) = Inventory(a, twigOnDisk, componentDirs, 1)

C30_ScanQueueDrains ==
    CacheQuiescent =>
        /\ scanQueue = <<>>
        /\ ~isScanning
        /\ unscanned = {}

====
